---- MODULE Spec2Model ----
(***************************************************************************)
(* A model of the plugin host (src/src/plugins/mod.rs) and of the          *)
(* generation pipeline that drives it (src/src/core/engine.rs,             *)
(* src/src/core/generator.rs) of rust-hexo.                                *)
(*                                                                         *)
(* A plugin binary is foreign code: what it does when it is opened, when   *)
(* its factory runs and when one of its trait methods is called is an      *)
(* attribute of the directory entry (its kind, the name it reports, its    *)
(* behaviour), drawn from small sets in Init.                              *)
(***************************************************************************)
EXTENDS Integers, Sequences, FiniteSets, TLC

\* ------------------------------------------------------------------ bounds
\* Number of entries of the plugin directory.
MaxFiles == 2
\* Cap on the number of library handles the manager may come to hold.
MaxLibs == 4
\* Cap on the number of live clones of the manager.
MaxClones == 2

Files == 1..MaxFiles

\* ------------------------------------------------------- directory entries
\* Entries that load_plugins does not hand to the loader.
SkippedKinds == {"absent", "subdir", "not_lib"}
\* Entries for which load_plugin_from_dylib returns Err or panics.
InvalidKinds ==
  {"missing", "nometa", "empty", "open_err", "open_panic", "sym_err",
   "sym_panic", "factory_panic", "init_err", "init_panic"}
\* What a plugin instance does when the host calls into it.
Behaviours ==
  {"good", "hook_err", "hook_panic", "proc_err", "proc_panic",
   "cleanup_err", "cleanup_panic"}
\* Names a plugin may report through name().
PluginNames == {<<"a", "_", "x">>, <<"a", "-", "x">>, <<"b">>}

Entry(kind, name, beh) == [kind |-> kind, name |-> name, beh |-> beh]

Entries ==
  {Entry(k, <<"b">>, "good") : k \in SkippedKinds \cup InvalidKinds \cup {"entry_err"}}
    \cup {Entry("valid", n, b) : n \in PluginNames, b \in Behaviours}

\* --------------------------------------------------------------- content
\* Content is a sequence of marks <<who, what>>; a source text is one raw mark,
\* and a plugin that processes content leaves its own mark behind it.
ContentTypes == {"Markdown", "HTML"}
Hooks == {"BeforeGenerate", "BeforeRouteGenerate", "AfterGenerate", "Clean"}
RawContent == << <<0, "raw">> >>

VARIABLES
  dir,          \* plugin directory: Files -> Entries
  plugins,      \* PluginManager.plugins: normalized name -> instance
  iter_order,   \* iteration order of the plugins HashMap (a sequence of keys)
  libraries,    \* PluginManager.libraries: the library handles, oldest first
  is_watching,  \* PluginManager.is_watching (the hot-reload flag)
  clones,       \* number of live PluginManager values sharing this state
  crashed,      \* a panic has unwound out of the host
  reg_log,      \* history: keys in the order of their latest registration
  last,         \* history: what the last host call was given and returned
  source,       \* the documents of source/_posts
  posts,        \* Engine.posts: the documents of the Content Store
  categories,   \* Engine.categories: the Category collection
  tags,         \* Engine.tags: the Tag collection
  watching,     \* Engine.is_watching
  run_pc,       \* where Engine::run / Engine::generate stands
  in_run,       \* Engine::generate was called by Engine::run
  trace,        \* history: the stages of the current build, in order
  run_result,   \* what the last build returned ("none" while it runs)
  emitted,      \* history: what each step of the current build wrote to the output
  posts_lock,   \* the RwLock of Engine.posts: "free" or "write" (held by classification)
  classify_pc,  \* where a classification that runs beside a reader stands
  classify_idx, \* the posts its loop has updated so far
  snapshot,     \* the collections a reader has cloned (create_plugin_context)
  versions,     \* history: the values each collection had between two updates
  plugins_lock, \* read guards held on PluginManager.plugins
  dispatch_pc,  \* where a dispatch that runs beside other threads stands
  dispatch_idx, \* the plugins its loop has called so far
  watch_pc,     \* where the watch task stands ("off" before Engine::watch)
  channel,      \* the events sent by the file watcher and not yet received
  elapsed,      \* last_event.elapsed() in ms, kept up to StaleMs
  events_stopped, \* the file system has gone quiet for good
  unbuilt,      \* history: a relevant event was received and no re-run started since
  thread_pc,    \* per thread: the operation it runs and the next instruction of it
  held          \* per thread: the lock guards it holds, in the order it took them

pmVars == <<dir, plugins, iter_order, libraries, is_watching, clones, crashed, reg_log, last>>
storeVars == <<posts_lock, classify_pc, classify_idx, snapshot, versions>>
lockVars == <<plugins_lock, dispatch_pc, dispatch_idx>>
watchVars == <<watch_pc, channel, elapsed, events_stopped, unbuilt>>
orderVars == <<thread_pc, held>>
threadVars == <<storeVars, lockVars, watchVars, orderVars>>
engineVars ==
  <<source, posts, categories, tags, watching, run_pc, in_run, trace, run_result, emitted,
    threadVars>>
vars == <<pmVars, engineVars>>

\* ----------------------------------------------------------------- helpers
Range(s) == {s[i] : i \in 1..Len(s)}

\* All orderings of the finite set S.
Orderings(S) ==
  {s \in [1..Cardinality(S) -> S] : \A i, j \in 1..Cardinality(S) : i # j => s[i] # s[j]}

\* s without the elements equal to x.
Without(s, x) == SelectSeq(s, LAMBDA e : e # x)

EmptyMap == [k \in {} |-> 0]

\* HashMap::insert: the earlier value under the same key is replaced (dropped).
MapInsert(m, k, v) == [x \in (DOMAIN m) \cup {k} |-> IF x = k THEN v ELSE m[x]]

\* ------------------------------------------------------ foreign plugin code
\* Each foreign step ends "ok", "err" (it returned an error) or "panic".
LibraryNew(e) ==
  CASE e.kind = "open_err" -> "err"
    [] e.kind = "open_panic" -> "panic"
    [] OTHER -> "ok"

LibraryGet(e) ==
  CASE e.kind = "sym_err" -> "err"
    [] e.kind = "sym_panic" -> "panic"
    [] OTHER -> "ok"

Constructor(e) == IF e.kind = "factory_panic" THEN "panic" ELSE "ok"

\* The same call when the Err of init is not looked at.
PluginInit_unchecked(e) == IF e.kind = "init_panic" THEN "panic" ELSE "ok"
PluginInit(e) ==
  CASE e.kind = "init_err" -> "err"
    [] e.kind = "init_panic" -> "panic"
    [] OTHER -> "ok"

\* Plugin::execute_hook of a loaded instance.
PluginExecuteHook(inst, hook) ==
  CASE inst.beh = "hook_err" -> "err"
    [] inst.beh = "hook_panic" -> "panic"
    [] OTHER -> "ok"

\* Plugin::cleanup of a loaded instance.
PluginCleanup(inst) ==
  CASE inst.beh = "cleanup_err" -> "err"
    [] inst.beh = "cleanup_panic" -> "panic"
    [] OTHER -> "ok"

\* Plugin::process_content of a loaded instance: it rewrites the content it is
\* given (here: leaves its mark, with the content type it was called with).
PluginProcessContent(inst, content, content_type) ==
  CASE inst.beh = "proc_err" -> [status |-> "err", content |-> content]
    [] inst.beh = "proc_panic" -> [status |-> "panic", content |-> content]
    [] OTHER -> [status |-> "ok", content |-> Append(content, <<inst.file, content_type>>)]

\* ------------------------------------------------------------- the loader
\* std::panic::catch_unwind: a panic of the closure becomes Err(_) ("caught").
no_catch_unwind(outcome) == outcome
catch_unwind(outcome) == IF outcome = "panic" THEN "caught" ELSE outcome

LoaderResult(status, err, inst, libs) ==
  [status |-> status, err |-> err, inst |-> inst, libraries |-> libs]
NoInst == [file |-> 0, lib |-> 0, name |-> <<>>, beh |-> ""]

\* self.libraries.write().unwrap().push(lib): the handle joins the handles held.
libraries_replace(libs, f) == <<f>>
libraries_push(libs, f) == Append(libs, f)

\* PluginManager::load_plugin_from_dylib on directory entry f, with `libs` the
\* handles held so far.  status "ok": init succeeded, the handle was pushed and
\* the instance is returned; "err": Err(LoadError | InitError); "panic": a panic left the function.
load_plugin_from_dylib(f, e, libs) ==
  LET lib_result == catch_unwind(LibraryNew(e))
      symbol_result == catch_unwind(LibraryGet(e))
      plugin_result == catch_unwind(Constructor(e))
      init_result == PluginInit(e)
      plugin == [file |-> f, lib |-> Len(libs) + 1, name |-> e.name, beh |-> e.beh]
  IN  CASE e.kind = "missing" -> LoaderResult("err", "LoadError", NoInst, libs)
        [] e.kind = "nometa" -> LoaderResult("err", "LoadError", NoInst, libs)
        [] e.kind = "empty" -> LoaderResult("err", "LoadError", NoInst, libs)
        [] lib_result = "panic" -> LoaderResult("panic", "panic", NoInst, libs)
        [] lib_result \in {"err", "caught"} -> LoaderResult("err", "LoadError", NoInst, libs)
        [] symbol_result = "panic" -> LoaderResult("panic", "panic", NoInst, libs)
        [] symbol_result \in {"err", "caught"} -> LoaderResult("err", "LoadError", NoInst, libs)
        [] plugin_result = "panic" -> LoaderResult("panic", "panic", NoInst, libs)
        [] plugin_result = "caught" -> LoaderResult("err", "LoadError", NoInst, libs)
        [] init_result = "panic" -> LoaderResult("panic", "panic", NoInst, libs)
        [] init_result = "err" -> LoaderResult("err", "InitError", NoInst, libs)
        [] OTHER -> LoaderResult("ok", "none", plugin, libraries_push(libs, f))

\* The configuration name of a plugin: every '_' of its name becomes '-'.
config_name_raw(name) == name
config_name(name) == [i \in DOMAIN name |-> IF name[i] = "_" THEN "-" ELSE name[i]]

\* ---------------------------------------------------------- load_plugins
\* The loop state of load_plugins.
LoadAcc(p, libs, reg) ==
  [plugins |-> p, libraries |-> libs, reg_log |-> reg, loaded_count |-> 0,
   failed_count |-> 0, failed_plugins |-> <<>>, attempted |-> <<>>, panicked |-> FALSE]

\* A failed load is reported: failed_plugins.push(..); failed_count += 1.
record_failure_unlisted(acc, f, err) == [acc EXCEPT !.failed_count = @ + 1]
record_failure(acc, f, err) ==
  [acc EXCEPT !.failed_plugins = Append(@, [file |-> f, err |-> err]),
              !.failed_count = @ + 1]

\* The test of load_plugins, were every entry taken for a library.
is_plugin_lib_any(e) == TRUE

\* path.is_file() and the extension is the platform's library suffix.
is_plugin_lib(e) == e.kind \notin {"subdir", "not_lib"}

\* The match of load_plugins, were the instance inserted whatever the loader
\* returned.
registered_after_any(load_result) == load_result \in {"ok", "err"}

\* match plugin_result { Ok(plugin) => { .. insert(config_name, plugin) } }:
\* only what the loader returned as Ok, so after init returned Ok, is inserted.
registered_after(load_result) == load_result = "ok"

\* One iteration of the for loop of load_plugins, on directory entry f.
load_entry(f, acc) ==
  LET e == dir[f]
      r == load_plugin_from_dylib(f, e, acc.libraries)
      load_result == catch_unwind(r.status)
      tried == [acc EXCEPT !.attempted = Append(@, f)]
  IN  CASE acc.panicked -> acc
        [] e.kind = "entry_err" -> [acc EXCEPT !.failed_count = @ + 1]
        [] ~is_plugin_lib(e) -> acc
        [] registered_after(load_result) ->
             [tried EXCEPT !.plugins = MapInsert(@, config_name(r.inst.name), r.inst),
                           !.libraries = r.libraries,
                           !.reg_log = Append(Without(@, config_name(r.inst.name)),
                                              config_name(r.inst.name)),
                           !.loaded_count = @ + 1]
        [] load_result = "err" -> record_failure(tried, f, r.err)
        [] load_result = "caught" -> record_failure(tried, f, "panic")
        [] OTHER -> [tried EXCEPT !.panicked = TRUE]

RECURSIVE load_entries(_, _)
load_entries(listing, acc) ==
  IF listing = <<>> THEN acc ELSE load_entries(Tail(listing), load_entry(Head(listing), acc))

\* What load_plugins can find where the plugin directory should be.
DirStates ==
  {"exists", "unreadable"}
    \cup (IF \A f \in Files : dir[f].kind = "absent" THEN {"missing", "create_fails"} ELSE {})

\* The entries read_dir yields (in an order of its own) when the directory is read.
Listed == {f \in Files : dir[f].kind # "absent"}

\* PluginManager::load_plugins, with the directory listed in the order `listing`.
load_plugins(dir_state, listing) ==
  LET acc == load_entries(listing, LoadAcc(plugins, libraries, reg_log))
      summary(result, a) ==
        [op |-> "load_plugins", result |-> result, dir_state |-> dir_state,
         listing |-> listing, attempted |-> a.attempted, loaded_count |-> a.loaded_count,
         failed_count |-> a.failed_count, failed_plugins |-> a.failed_plugins]
  IN  CASE dir_state = "missing" ->
             /\ last' = summary("Ok", LoadAcc(plugins, libraries, reg_log))
             /\ UNCHANGED <<plugins, iter_order, libraries, reg_log, crashed>>
        [] dir_state = "create_fails" ->
             /\ last' = summary("Err", LoadAcc(plugins, libraries, reg_log))
             /\ UNCHANGED <<plugins, iter_order, libraries, reg_log, crashed>>
        [] dir_state = "unreadable" ->
             /\ last' = summary("Ok", LoadAcc(plugins, libraries, reg_log))
             /\ UNCHANGED <<plugins, iter_order, libraries, reg_log, crashed>>
        [] OTHER ->
             /\ plugins' = acc.plugins
             /\ libraries' = acc.libraries
             /\ reg_log' = acc.reg_log
             /\ crashed' = acc.panicked
             /\ last' = summary(IF acc.panicked THEN "panic" ELSE "Ok", acc)
             \* a HashMap promises no iteration order: any may follow an insert
             /\ IF acc.loaded_count = 0
                  THEN iter_order' = iter_order
                  ELSE iter_order' \in Orderings(DOMAIN acc.plugins)

\* ------------------------------------------------------------- dispatch
\* The loop of PluginManager::process_content over the keys `keys` (the HashMap's
\* iteration order).  `calls` records what each plugin was given.
Processed(status, content, calls) == [status |-> status, content |-> content, calls |-> calls]

\* match plugin.process_content(..): Ok(new_content) => processed = new_content;
\* Err(e) => warn!, and `processed` stays as it was.
after_plugin_cleared(processed, r) == IF r.status = "ok" THEN r.content ELSE <<>>
after_plugin(processed, r) == IF r.status = "ok" THEN r.content ELSE processed

RECURSIVE process_loop(_, _, _, _)
process_loop(keys, processed, content_type, calls) ==
  IF keys = <<>> THEN Processed("Ok", processed, calls)
  ELSE LET name == Head(keys)
           r == PluginProcessContent(plugins[name], processed, content_type)
           called == Append(calls, [plugin |-> name, given |-> processed,
                                    content_type |-> content_type, status |-> r.status])
       IN  IF r.status \in {"ok", "err"}
             THEN process_loop(Tail(keys), after_plugin(processed, r), content_type, called)
             \* nothing catches a panic of the plugin: it leaves process_content
             ELSE Processed("panic", processed, called)

\* PluginManager::process_content(content, content_type).
process_content(content, content_type) ==
  process_loop(iter_order, content, content_type, <<>>)

\* The loop of PluginManager::execute_hook: `errors` collects one message for
\* each plugin whose execute_hook returned Err, `invoked` the plugins called.
Dispatched(status, errors, invoked) == [status |-> status, errors |-> errors, invoked |-> invoked]

\* The same loop, were it to return at the first Err.
RECURSIVE hook_loop_short(_, _, _, _)
hook_loop_short(keys, hook, errors, invoked) ==
  IF keys = <<>> \/ errors # <<>>
    THEN Dispatched(IF errors = <<>> THEN "Ok" ELSE "Err", errors, invoked)
  ELSE LET name == Head(keys)
           r == PluginExecuteHook(plugins[name], hook)
       IN  CASE r = "ok" -> hook_loop_short(Tail(keys), hook, errors, Append(invoked, name))
             [] r = "err" ->
                  hook_loop_short(Tail(keys), hook,
                                  Append(errors, [plugin |-> name, hook |-> hook]),
                                  Append(invoked, name))
             [] OTHER -> Dispatched("panic", errors, Append(invoked, name))

RECURSIVE hook_loop(_, _, _, _)
hook_loop(keys, hook, errors, invoked) ==
  IF keys = <<>> THEN Dispatched(IF errors = <<>> THEN "Ok" ELSE "Err", errors, invoked)
  ELSE LET name == Head(keys)
           r == PluginExecuteHook(plugins[name], hook)
       IN  CASE r = "ok" -> hook_loop(Tail(keys), hook, errors, Append(invoked, name))
             [] r = "err" ->
                  hook_loop(Tail(keys), hook,
                            Append(errors, [plugin |-> name, hook |-> hook]),
                            Append(invoked, name))
             [] OTHER -> Dispatched("panic", errors, Append(invoked, name))

\* PluginManager::execute_hook(hook).
execute_hook(hook) == hook_loop(iter_order, hook, <<>>, <<>>)

\* The same loop, were it to return at the first Err.
RECURSIVE cleanup_loop_short(_, _, _)
cleanup_loop_short(keys, errors, invoked) ==
  IF keys = <<>> \/ errors # <<>>
    THEN Dispatched(IF errors = <<>> THEN "Ok" ELSE "Err", errors, invoked)
  ELSE LET name == Head(keys)
           r == PluginCleanup(plugins[name])
       IN  CASE r = "ok" -> cleanup_loop_short(Tail(keys), errors, Append(invoked, name))
             [] r = "err" ->
                  cleanup_loop_short(Tail(keys),
                                     Append(errors, [plugin |-> name, hook |-> "cleanup"]),
                                     Append(invoked, name))
             [] OTHER -> Dispatched("panic", errors, Append(invoked, name))

RECURSIVE cleanup_loop(_, _, _)
cleanup_loop(keys, errors, invoked) ==
  IF keys = <<>> THEN Dispatched(IF errors = <<>> THEN "Ok" ELSE "Err", errors, invoked)
  ELSE LET name == Head(keys)
           r == PluginCleanup(plugins[name])
       IN  CASE r = "ok" -> cleanup_loop(Tail(keys), errors, Append(invoked, name))
             [] r = "err" ->
                  cleanup_loop(Tail(keys), Append(errors, [plugin |-> name, hook |-> "cleanup"]),
                               Append(invoked, name))
             [] OTHER -> Dispatched("panic", errors, Append(invoked, name))

\* PluginManager::cleanup().
cleanup == cleanup_loop(iter_order, <<>>, <<>>)

\* ------------------------------------------------- host calls as steps
\* A call of process_content by the host: the state it leaves.
call_process_content(content, content_type) ==
  LET r == process_content(content, content_type)
  IN  /\ crashed' = (r.status = "panic")
      /\ last' = [op |-> "process_content", result |-> r.status, content |-> content,
                  content_type |-> content_type, keys |-> iter_order,
                  processed |-> r.content, calls |-> r.calls]

\* A call of execute_hook by the host: the state it leaves.
call_execute_hook(hook) ==
  LET r == execute_hook(hook)
  IN  /\ crashed' = (r.status = "panic")
      /\ last' = [op |-> "execute_hook", result |-> r.status, hook |-> hook,
                  keys |-> iter_order, errors |-> r.errors, invoked |-> r.invoked]

\* A call of cleanup by the host: the state it leaves.
call_cleanup ==
  LET r == cleanup
  IN  /\ crashed' = (r.status = "panic")
      /\ last' = [op |-> "cleanup", result |-> r.status, keys |-> iter_order,
                  errors |-> r.errors, invoked |-> r.invoked]

Idle == ~crashed /\ run_pc = "idle"

\* PluginManager::init: load_plugins()?; self.initialized = true.
LoadPlugins ==
  /\ Idle
  /\ Len(libraries) + Cardinality({f \in Files : dir[f].kind = "valid"}) <= MaxLibs
  /\ \E dir_state \in DirStates :
       \E listing \in (IF dir_state = "exists" THEN Orderings(Listed) ELSE {<<>>}) :
         load_plugins(dir_state, listing)
  /\ UNCHANGED <<dir, is_watching, clones, engineVars>>

ProcessContent ==
  /\ Idle
  /\ \E content_type \in ContentTypes : call_process_content(RawContent, content_type)
  /\ UNCHANGED <<dir, plugins, iter_order, libraries, is_watching, clones, reg_log, engineVars>>

ExecuteHook ==
  /\ Idle
  /\ \E hook \in Hooks : call_execute_hook(hook)
  /\ UNCHANGED <<dir, plugins, iter_order, libraries, is_watching, clones, reg_log, engineVars>>

Cleanup ==
  /\ Idle
  /\ call_cleanup
  /\ UNCHANGED <<dir, plugins, iter_order, libraries, is_watching, clones, reg_log, engineVars>>

\* PluginManager::start_hot_reload / stop_hot_reload.
StartHotReload ==
  /\ Idle
  /\ is_watching' = TRUE
  /\ last' = [op |-> "start_hot_reload", result |-> "Ok"]
  /\ UNCHANGED <<dir, plugins, iter_order, libraries, clones, crashed, reg_log, engineVars>>

StopHotReload ==
  /\ Idle
  /\ is_watching' = FALSE
  /\ last' = [op |-> "stop_hot_reload", result |-> "Ok"]
  /\ UNCHANGED <<dir, plugins, iter_order, libraries, clones, crashed, reg_log, engineVars>>

\* impl Clone for PluginManager: the Arc fields are shared, not copied.
CloneManager ==
  /\ Idle
  /\ clones < MaxClones
  /\ clones' = clones + 1
  /\ UNCHANGED <<dir, plugins, iter_order, libraries, is_watching, crashed, reg_log, last,
                 engineVars>>

\* A clone goes out of scope: the shared state lives on in the others.
DropClone ==
  /\ Idle
  /\ clones > 1
  /\ clones' = clones - 1
  /\ UNCHANGED <<dir, plugins, iter_order, libraries, is_watching, crashed, reg_log, last,
                 engineVars>>

\* ------------------------------------------------------------ the engine
\* The most items a front-matter sequence holds.
MaxItems == 2
\* The documents a source tree may hold, named by their dates.
Docs == {1, 2}

\* The steps of HtmlGenerator::generate between its two hooks, in order.
GeneratorSteps ==
  <<"create_dir_all", "copy_theme_assets", "generate_posts", "generate_paginated_index",
    "generate_categories", "generate_tags", "generate_archives", "generate_rss_feed",
    "generate_atom_feed", "generate_search_index">>

\* The steps that render a theme template, with the flags of the registered plugins.
TemplateSteps == {"generate_posts", "generate_paginated_index"}

NothingWritten == [written |-> FALSE, contents |-> <<>>, plugin_enabled |-> {}]

\* Engine::process_content: what the manager returns, or the content as given
\* when the manager returns Err.
engine_process_content(content, content_type) ==
  LET r == process_content(content, content_type)
  IN  [status |-> r.status, content |-> IF r.status = "Ok" THEN r.content ELSE content]

\* utils::markdown::render: the HTML of a Markdown text.
markdown_render(content) == Append(content, <<0, "html">>)

\* The serde_yaml::Value a front-matter key holds (pod_to_value): a string, a
\* number, a sequence of such scalars; NoValue when the key is absent.
StringValue(s) == [type |-> "String", s |-> s, items |-> <<>>]
NumberValue(s) == [type |-> "Number", s |-> s, items |-> <<>>]
SequenceValue(items) == [type |-> "Sequence", s |-> "", items |-> items]
NoValue == [type |-> "None", s |-> "", items |-> <<>>]

\* The front matter of each document of the source tree.
front_matter(d) ==
  IF d = 1
    THEN [categories |-> SequenceValue(<<StringValue("x"), StringValue("y")>>),
          tags |-> StringValue("t")]
    ELSE [categories |-> StringValue("x"), tags |-> NoValue]

\* The same, were a sequence with an item that is no string to give nothing.
names_in_strict(value) ==
  CASE value.type = "Sequence" /\ (\A i \in 1..Len(value.items) : value.items[i].type = "String")
         -> [i \in 1..Len(value.items) |-> value.items[i].s]
    [] value.type = "String" -> <<value.s>>
    [] OTHER -> <<>>

\* The names classification takes from the value of `categories` or `tags`:
\* the strings of a sequence, the string of a scalar, nothing otherwise.
names_in(value) ==
  LET strings == SelectSeq(value.items, LAMBDA item : item.type = "String")
  IN  CASE value.type = "Sequence" -> [i \in 1..Len(strings) |-> strings[i].s]
        [] value.type = "String" -> <<value.s>>
        [] OTHER -> <<>>

\* categories: Vec::new() of a new Post ("handled later").
new_post_categories_filled(d) == names_in(front_matter(d).categories)
new_post_categories(d) == <<>>

\* One document of source/_posts as load_posts_and_pages reads it: plugins on
\* the Markdown, render, plugins on the HTML; categories and tags are left empty.
load_post(d) ==
  LET processed_content == engine_process_content(RawContent, "Markdown")
      html_content == markdown_render(processed_content.content)
      final_content == engine_process_content(html_content, "HTML")
  IN  [post |-> [id |-> d, content |-> html_content,
                 rendered_content |-> final_content.content,
                 categories |-> new_post_categories(d), tags |-> <<>>,
                 front_matter |-> front_matter(d), classified |-> FALSE],
       panicked |-> processed_content.status = "panic" \/ final_content.status = "panic"]

\* What load_posts_and_pages does with the text of each file, in order:
\* process_markdown(&content), matter.parse(&processed_content),
\* markdown::render(&result.content), process_html(&html_content).
load_stages == <<"markdown_transform", "parse_front_matter", "convert", "html_transform">>

\* found_posts.sort_by(|a, b| b.date.cmp(&a.date)): newest (highest id) first.
sort_by_date(found) ==
  CHOOSE s \in Orderings(found) : \A i, j \in 1..Len(s) : i < j => s[i].id > s[j].id

\* Engine::load_posts_and_pages, `io` telling whether the walk and the reads succeed.
load_posts_and_pages(io) ==
  LET found_posts == {load_post(d).post : d \in source}
      panicked == \E d \in source : load_post(d).panicked
  IN  /\ crashed' = panicked
      /\ posts' = IF io = "ok" /\ ~panicked /\ found_posts # {}
                    THEN sort_by_date(found_posts) ELSE posts
      /\ last' = [op |-> "load_posts_and_pages",
                  result |-> IF panicked THEN "panic" ELSE IF io = "ok" THEN "Ok" ELSE "Err",
                  keys |-> iter_order, found |-> {p.id : p \in found_posts},
                  stages |-> IF source = {} THEN <<>> ELSE load_stages]

\* The Category (or Tag) collection of the posts `ps`: one element for each
\* name their front matter gives under `field`, with the number of its posts,
\* in the order the HashMap they are collected in happens to iterate.
collections_of(ps, field) ==
  LET names(i) == names_in(ps[i].front_matter[field])
      named == UNION {Range(names(i)) : i \in 1..Len(ps)}
      post_count(n) ==
        Cardinality({ij \in (1..Len(ps)) \X (1..MaxItems) :
                       ij[2] <= Len(names(ij[1])) /\ names(ij[1])[ij[2]] = n})
  IN  Orderings({[name |-> n, post_count |-> post_count(n)] : n \in named})

\* post.categories = post_categories; post.tags = post_tags, for one post of
\* the loop.
classified_post(post) ==
  [post EXCEPT !.categories = names_in(post.front_matter.categories),
               !.tags = names_in(post.front_matter.tags),
               !.classified = TRUE]

\* Engine::process_categories_and_tags: every post gets the categories and tags
\* of its front matter; the Category and Tag collections are replaced.
process_categories_and_tags ==
  /\ posts' = [i \in 1..Len(posts) |-> classified_post(posts[i])]
  /\ categories' \in collections_of(posts, "categories")
  /\ tags' \in collections_of(posts, "tags")

\* What a step of the generator writes for the posts it is given.
written_by(step) ==
  [written |-> TRUE, contents |-> [i \in 1..Len(posts) |-> posts[i].content],
   plugin_enabled |-> IF step \in TemplateSteps
                        THEN {config_name(plugins[k].name) : k \in DOMAIN plugins} ELSE {}]

Running(pc) == ~crashed /\ run_pc = pc

\* The build returns to its caller.
Return(result) ==
  /\ run_pc' = "idle"
  /\ run_result' = result
  /\ in_run' = FALSE

\* A build can pass the plugin loading of Engine::generate.
CanBuild == Len(libraries) + Cardinality({f \in Files : dir[f].kind = "valid"}) <= MaxLibs

pmKept == <<dir, plugins, iter_order, libraries, is_watching, clones, reg_log>>

NoneEmitted == [step \in Range(GeneratorSteps) |-> NothingWritten]

\* Engine::run is called: execute_hook(BeforeGenerate), an Err only logged.
RunBeforeGenerate ==
  /\ Idle /\ CanBuild
  /\ call_execute_hook("BeforeGenerate")
  /\ trace' = <<"BeforeGenerate">>
  /\ run_pc' = "run_load"
  /\ in_run' = TRUE
  /\ run_result' = "none"
  /\ emitted' = NoneEmitted
  /\ UNCHANGED <<pmKept, source, threadVars, categories, tags, posts, watching>>

\* Engine::run: self.load_posts_and_pages()?
RunLoad ==
  /\ Running("run_load")
  /\ \E io \in {"ok", "err"} :
       /\ load_posts_and_pages(io)
       /\ IF io = "ok"
            THEN /\ trace' = Append(trace, "load")
                 /\ run_pc' = "run_classify"
                 /\ UNCHANGED <<in_run, run_result>>
            ELSE /\ trace' = trace \o <<"load", "io_error">>
                 /\ Return("Err")
  /\ UNCHANGED <<pmKept, source, threadVars, categories, tags, watching, emitted>>

\* Engine::run: self.process_categories_and_tags()?
RunClassify ==
  /\ Running("run_classify")
  /\ process_categories_and_tags
  /\ trace' = Append(trace, "classify")
  /\ run_pc' = "run_before_route"
  /\ UNCHANGED <<pmVars, source, threadVars, watching, in_run, run_result, emitted>>

\* Engine::run: execute_hook(BeforeRouteGenerate), an Err only logged.
RunBeforeRoute ==
  /\ Running("run_before_route")
  /\ call_execute_hook("BeforeRouteGenerate")
  /\ trace' = Append(trace, "BeforeRouteGenerate")
  /\ run_pc' = "run_generate"
  /\ UNCHANGED <<pmKept, source, threadVars, categories, tags, posts, watching, in_run, run_result, emitted>>

\* Engine::generate: fs::create_dir_all(&output_dir)?
create_output_dir(so_far) ==
  \E io \in {"ok", "err"} :
    IF io = "ok"
      THEN /\ trace' = Append(so_far, "output_dir")
           /\ run_pc' = "gen_load"
           /\ run_result' = "none"
      ELSE /\ trace' = so_far \o <<"output_dir", "io_error">>
           /\ run_pc' = "idle"
           /\ run_result' = "Err"

\* Engine::generate is called by a command.
Generate ==
  /\ Idle /\ CanBuild
  /\ create_output_dir(<<>>)
  /\ in_run' = FALSE
  /\ emitted' = NoneEmitted
  /\ UNCHANGED <<pmVars, source, threadVars, categories, tags, posts, watching>>

\* Engine::generate is called by Engine::run.
RunGenerate ==
  /\ Running("run_generate")
  /\ create_output_dir(trace)
  /\ in_run' = (run_pc' # "idle")
  /\ UNCHANGED <<pmVars, source, threadVars, categories, tags, posts, watching, emitted>>

\* Engine::generate, were it to load whatever the store holds.
needs_load_always == TRUE

\* Engine::generate loads if self.posts is empty, and otherwise if
\* *self.is_watching is set.
needs_load == posts = <<>> \/ watching

\* Engine::generate: the posts are loaded when the store is empty or the
\* engine is watching.
GenLoad ==
  /\ Running("gen_load")
  /\ IF needs_load
       THEN \E io \in {"ok", "err"} :
              /\ load_posts_and_pages(io)
              /\ IF io = "ok"
                   THEN /\ trace' = Append(trace, "load")
                        /\ run_pc' = "gen_classify"
                        /\ UNCHANGED <<in_run, run_result>>
                   ELSE /\ trace' = trace \o <<"load", "io_error">>
                        /\ Return("Err")
       ELSE /\ run_pc' = "gen_classify"
            /\ UNCHANGED <<crashed, last, posts, trace, in_run, run_result>>
  /\ UNCHANGED <<pmKept, source, threadVars, categories, tags, watching, emitted>>

\* Engine::generate: self.process_categories_and_tags()?
GenClassify ==
  /\ Running("gen_classify")
  /\ process_categories_and_tags
  /\ trace' = Append(trace, "classify")
  /\ run_pc' = "gen_plugins"
  /\ UNCHANGED <<pmVars, source, threadVars, watching, in_run, run_result, emitted>>

\* The answer of is_initialized, were it true once a load has registered a plugin.
is_initialized_once_loaded == DOMAIN plugins # {}

\* PluginManager::is_initialized: the read of the flag is commented out and the
\* function returns false.
is_initialized == FALSE

\* Engine::generate: set_context; if !is_initialized() { plugin_manager.init()? },
\* which loads the directory again; then the manager is cloned into the
\* HtmlGenerator.
GenPlugins ==
  /\ Running("gen_plugins")
  /\ IF is_initialized
       THEN /\ trace' = Append(trace, "plugins_skip")
            /\ run_pc' = "html_before_generate"
            /\ clones' = clones + 1
            /\ UNCHANGED <<plugins, iter_order, libraries, reg_log, crashed, last,
                           in_run, run_result>>
       ELSE /\ \E dir_state \in DirStates :
                 \E listing \in (IF dir_state = "exists" THEN Orderings(Listed) ELSE {<<>>}) :
                   load_plugins(dir_state, listing)
            /\ IF last'.result = "Err"
                 THEN /\ trace' = trace \o <<"plugins_init", "io_error">>
                      /\ Return("Err")
                      /\ UNCHANGED clones
                 ELSE /\ trace' = Append(trace, "plugins_init")
                      /\ run_pc' = "html_before_generate"
                      /\ clones' = clones + 1
                      /\ UNCHANGED <<in_run, run_result>>
  /\ UNCHANGED <<dir, is_watching, source, threadVars, categories, tags, posts, watching, emitted>>

\* HtmlGenerator::generate: execute_hook(BeforeGenerate)?
HtmlBeforeGenerate ==
  /\ Running("html_before_generate")
  /\ call_execute_hook("BeforeGenerate")
  /\ IF last'.result = "Err"
       THEN /\ trace' = trace \o <<"BeforeGenerate", "hook_error">>
            /\ Return("Err")
            /\ clones' = clones - 1
       ELSE /\ trace' = Append(trace, "BeforeGenerate")
            /\ run_pc' = "html_emit"
            /\ UNCHANGED <<clones, in_run, run_result>>
  /\ UNCHANGED <<dir, plugins, iter_order, libraries, is_watching, reg_log, source, threadVars, categories, tags, posts,
                 watching, emitted>>

\* The steps, were the Err of a step not to end the function.
steps_run_all(failing) == GeneratorSteps

\* The steps that run when step number `failing` returns Err (0: none does):
\* each call ends in `?`, so the steps before it.
steps_run(failing) ==
  IF failing = 0 THEN GeneratorSteps ELSE SubSeq(GeneratorSteps, 1, failing - 1)

\* HtmlGenerator::generate: the steps between the hooks, each ending in `?`;
\* the first `failing` - 1 of them succeed (all of them when failing = 0).
HtmlEmit ==
  /\ Running("html_emit")
  /\ \E failing \in 0..Len(GeneratorSteps) :
       LET done == steps_run(failing)
       IN  /\ emitted' = [step \in Range(GeneratorSteps) |->
                            IF step \in Range(done) THEN written_by(step) ELSE emitted[step]]
           /\ IF failing = 0
                THEN /\ trace' = trace \o done
                     /\ run_pc' = "html_after_generate"
                     /\ UNCHANGED <<clones, in_run, run_result>>
                ELSE /\ trace' = trace \o done \o <<GeneratorSteps[failing], "io_error">>
                     /\ Return("Err")
                     /\ clones' = clones - 1
  /\ UNCHANGED <<dir, plugins, iter_order, libraries, is_watching, crashed, reg_log, last,
                 source, threadVars, categories, tags, posts, watching>>

\* HtmlGenerator::generate: execute_hook(AfterGenerate)?; the generator and its
\* clone of the manager are dropped when Engine::generate returns.
HtmlAfterGenerate ==
  /\ Running("html_after_generate")
  /\ call_execute_hook("AfterGenerate")
  /\ clones' = clones - 1
  /\ IF last'.result = "Err"
       THEN /\ trace' = trace \o <<"AfterGenerate", "hook_error">>
            /\ Return("Err")
       ELSE /\ trace' = Append(trace, "AfterGenerate")
            /\ IF in_run
                 THEN /\ run_pc' = "run_after_generate"
                      /\ UNCHANGED <<in_run, run_result>>
                 ELSE Return("Ok")
  /\ UNCHANGED <<dir, plugins, iter_order, libraries, is_watching, reg_log, source, threadVars, categories, tags, posts,
                 watching, emitted>>

\* Engine::run: execute_hook(AfterGenerate), an Err only logged; Ok(()).
RunAfterGenerate ==
  /\ Running("run_after_generate")
  /\ call_execute_hook("AfterGenerate")
  /\ trace' = Append(trace, "AfterGenerate")
  /\ Return("Ok")
  /\ UNCHANGED <<pmKept, source, threadVars, categories, tags, posts, watching, emitted>>

\* Engine::cleanup, which no build and no command calls: the Clean hook, then
\* the cleanup of the manager, the Err of either only logged.
EngineCleanup ==
  /\ Idle
  /\ LET hooked == execute_hook("Clean")
          cleaned == cleanup
      IN  /\ crashed' = (hooked.status = "panic" \/ cleaned.status = "panic")
          /\ last' = IF hooked.status = "panic"
                       THEN [op |-> "execute_hook", result |-> "panic", hook |-> "Clean",
                             keys |-> iter_order, errors |-> hooked.errors,
                             invoked |-> hooked.invoked]
                       ELSE [op |-> "cleanup", result |-> cleaned.status, keys |-> iter_order,
                             errors |-> cleaned.errors, invoked |-> cleaned.invoked]
  /\ UNCHANGED <<pmKept, engineVars>>

\* The author adds documents to source/_posts or removes some between builds.
ChangeSource ==
  /\ Idle
  /\ source' \in (SUBSET Docs) \ {source}
  /\ UNCHANGED <<pmVars, posts, categories, tags, watching, run_pc, in_run, trace, run_result,
                 emitted, threadVars>>

\* Engine::watch sets the engine's flag; Engine::unwatch clears it.
Watch ==
  /\ Idle
  /\ watching' = TRUE
  /\ UNCHANGED <<pmVars, source, threadVars, categories, tags, posts, run_pc, in_run, trace, run_result, emitted>>

Unwatch ==
  /\ Idle
  /\ watching' = FALSE
  /\ UNCHANGED <<pmVars, source, threadVars, categories, tags, posts, run_pc, in_run, trace, run_result, emitted>>

\* -------------------------------------------------------- specifications
\* PluginManager::new: empty registry, no library, hot reload off.
InitManager ==
  /\ plugins = EmptyMap
  /\ iter_order = <<>>
  /\ libraries = <<>>
  /\ is_watching = FALSE
  /\ clones = 1
  /\ crashed = FALSE
  /\ reg_log = <<>>
  /\ last = [op |-> "new", result |-> "Ok"]

\* The threads that may hold clones of one Engine: the caller of the engine and
\* the task Engine::watch spawns.
Threads == {"main", "watch_task"}

\* A thread that runs no operation of the engine.
NoOperation == [op |-> "none", at |-> 0]

\* No thread runs beside the build: the locks are free, Engine::watch has not
\* been called.
InitThreads ==
  /\ posts_lock = "free"
  /\ classify_pc = "idle"
  /\ classify_idx = 0
  /\ snapshot = [c \in {"posts", "categories", "tags"} |-> [taken |-> FALSE, value |-> <<>>]]
  /\ versions = [posts |-> {posts}, categories |-> {categories}, tags |-> {tags}]
  /\ plugins_lock = 0
  /\ dispatch_pc = "idle"
  /\ dispatch_idx = 0
  /\ watch_pc = "off"
  /\ channel = <<>>
  /\ elapsed = 0
  /\ events_stopped = FALSE
  /\ unbuilt = FALSE
  /\ thread_pc = [t \in Threads |-> NoOperation]
  /\ held = [t \in Threads |-> <<>>]

\* Engine::new: an empty Content Store, not watching, no build under way.
InitEngine ==
  /\ posts = <<>>
  /\ categories = <<>>
  /\ tags = <<>>
  /\ watching = FALSE
  /\ run_pc = "idle"
  /\ in_run = FALSE
  /\ trace = <<>>
  /\ run_result = "none"
  /\ emitted = [step \in Range(GeneratorSteps) |-> NothingWritten]
  /\ InitThreads

\* Spec: the loader and the registry, over directories of every kind of entry
\* (the plugins that load behave well afterwards).
LoadEntries == {e \in Entries : e.beh = "good"}

Init ==
  /\ dir \in [Files -> LoadEntries]
  /\ source = {}
  /\ InitManager
  /\ InitEngine

Next ==
  \/ LoadPlugins

Spec == Init /\ [][Next]_vars

\* SpecDispatch: the dispatch of calls to the registered plugins, over
\* directories of loadable plugins of every behaviour.
DispatchEntries ==
  {e \in Entries : e.kind = "absent" \/ (e.kind = "valid" /\ e.name \in {<<"a", "_", "x">>, <<"b">>})}

InitDispatch ==
  /\ dir \in [Files -> DispatchEntries]
  /\ source = {}
  /\ InitManager
  /\ InitEngine

NextDispatch ==
  \/ LoadPlugins
  \/ ProcessContent
  \/ ExecuteHook
  \/ Cleanup

SpecDispatch == InitDispatch /\ [][NextDispatch]_vars

\* SpecRun: builds by Engine::run and Engine::generate, after Engine::init or
\* without it, watching or not, over directories of plugins that load or not
\* and that fail or not once loaded.
RunEntries ==
  {Entry("absent", <<"b">>, "good"), Entry("init_err", <<"b">>, "good"),
   Entry("valid", <<"b">>, "good"), Entry("valid", <<"b">>, "hook_err"),
   Entry("valid", <<"a", "_", "x">>, "proc_err")}

InitRun ==
  /\ dir \in [Files -> RunEntries]
  /\ source \in {{}, Docs}
  /\ InitManager
  /\ InitEngine

NextRun ==
  \/ LoadPlugins
  \/ Watch
  \/ Unwatch
  \/ EngineCleanup
  \/ RunBeforeGenerate
  \/ RunLoad
  \/ RunClassify
  \/ RunBeforeRoute
  \/ RunGenerate
  \/ Generate
  \/ GenLoad
  \/ GenClassify
  \/ GenPlugins
  \/ HtmlBeforeGenerate
  \/ HtmlEmit
  \/ HtmlAfterGenerate
  \/ RunAfterGenerate

SpecRun == InitRun /\ [][NextRun]_vars

\* SpecReload: builds by Engine::run and Engine::generate with plugin hot
\* reload switched on and off between them.
NextReload ==
  \/ StartHotReload
  \/ StopHotReload
  \/ RunBeforeGenerate
  \/ RunLoad
  \/ RunClassify
  \/ RunBeforeRoute
  \/ RunGenerate
  \/ Generate
  \/ GenLoad
  \/ GenClassify
  \/ GenPlugins
  \/ HtmlBeforeGenerate
  \/ HtmlEmit
  \/ HtmlAfterGenerate
  \/ RunAfterGenerate

SpecReload == InitRun /\ [][NextReload]_vars

\* SpecContent: builds by Engine::run and Engine::generate, watching or not,
\* over a source tree that changes between builds, with plugins that load and
\* behave well.
ContentEntries == {Entry("absent", <<"b">>, "good"), Entry("valid", <<"b">>, "good")}

InitContent ==
  /\ dir \in [Files -> ContentEntries]
  /\ source \in SUBSET Docs
  /\ InitManager
  /\ InitEngine

NextContent ==
  \/ ChangeSource
  \/ Watch
  \/ Unwatch
  \/ RunBeforeGenerate
  \/ RunLoad
  \/ RunClassify
  \/ RunBeforeRoute
  \/ RunGenerate
  \/ Generate
  \/ GenLoad
  \/ GenClassify
  \/ GenPlugins
  \/ HtmlBeforeGenerate
  \/ HtmlEmit
  \/ HtmlAfterGenerate
  \/ RunAfterGenerate

SpecContent == InitContent /\ [][NextContent]_vars

\* SpecManager: one manager and its clones, loaded again and again, switched to
\* hot reload and back, and called, over directories whose plugins may share a
\* name once normalized.
ManagerEntries ==
  {Entry("absent", <<"b">>, "good"), Entry("init_err", <<"b">>, "good"),
   Entry("valid", <<"a", "_", "x">>, "good"), Entry("valid", <<"a", "-", "x">>, "good"),
   Entry("valid", <<"c", "_", "_">>, "hook_err")}

InitManagerSpec ==
  /\ dir \in [Files -> ManagerEntries]
  /\ source = {}
  /\ InitManager
  /\ InitEngine

NextManager ==
  \/ LoadPlugins
  \/ ProcessContent
  \/ ExecuteHook
  \/ Cleanup
  \/ StartHotReload
  \/ StopHotReload
  \/ CloneManager
  \/ DropClone

SpecManager == InitManagerSpec /\ [][NextManager]_vars


\* ------------------------------------------------------------------ claims
\* The last host call was a load_plugins that read the directory.
LoadedDirectory == last.op = "load_plugins" /\ last.dir_state = "exists"

\* Position of entry f in the listing of the last load_plugins.
ListedAt(f) == CHOOSE i \in 1..Len(last.listing) : last.listing[i] = f

PanicsWhileLoading(f) == dir[f].kind \in {"open_panic", "sym_panic", "factory_panic"}
HandedToLoader(f) == dir[f].kind \in InvalidKinds \cup {"valid"}

\* The valid libraries (N of them) and the invalid ones (M of them) of the directory.
ValidFiles == {f \in Files : dir[f].kind = "valid"}
InvalidFiles == {f \in Files : dir[f].kind \in InvalidKinds}
UnreadableEntries == {f \in Files : dir[f].kind = "entry_err"}

\* A plugin name with '-' for every '_'.
Hyphenated(name) == [i \in 1..Len(name) |-> IF name[i] = "_" THEN "-" ELSE name[i]]

\* C1: a panic while the library is opened, while create_plugin is resolved or
\* while the factory runs is reported as a LoadError of that one file;
\* load_plugins goes on with the files listed after it and returns Ok, and
\* the host has not been ended.
C1_LoadPanicIsolated ==
  LoadedDirectory =>
    \A f \in Range(last.listing) :
      PanicsWhileLoading(f) =>
        /\ ~crashed
        /\ last.result = "Ok"
        /\ [file |-> f, err |-> "LoadError"] \in Range(last.failed_plugins)
        /\ \A g \in Range(last.listing) :
             (HandedToLoader(g) /\ ListedAt(g) > ListedAt(f)) => g \in Range(last.attempted)
        /\ \A g \in Range(last.listing) :
             dir[g].kind = "valid" => Hyphenated(dir[g].name) \in DOMAIN plugins

\* C1 witness: a library whose factory panics was listed first, and the valid
\* library listed after it was loaded and registered.
C1_Witness ==
  /\ LoadedDirectory
  /\ Len(last.listing) = 2
  /\ dir[last.listing[1]].kind = "factory_panic"
  /\ dir[last.listing[2]].kind = "valid"
  /\ last.loaded_count = 1
  /\ \E k \in DOMAIN plugins : plugins[k].file = last.listing[2]

\* The valid library listed last among those of normalized name `key`.
LastListedAs(key) ==
  LET at == {i \in 1..Len(last.listing) :
               /\ dir[last.listing[i]].kind = "valid"
               /\ Hyphenated(dir[last.listing[i]].name) = key}
  IN  last.listing[CHOOSE i \in at : \A j \in at : j <= i]

\* C2 as stated: after load_plugins on a directory of N valid and M invalid
\* libraries exactly N plugins are registered and exactly M failures reported,
\* and the call returns Ok without a panic.
C2_ExactlyNRegistered ==
  (LoadedDirectory /\ UnreadableEntries = {}) =>
    /\ ~crashed
    /\ last.result = "Ok"
    /\ Cardinality(DOMAIN plugins) = Cardinality(ValidFiles)
    /\ last.failed_count = Cardinality(InvalidFiles)

\* C2 as amended: load_plugins returns Ok without a panic, counts N loads and
\* M failures (and one more failure for each directory entry that cannot be
\* read), lists the M invalid libraries as failed, and leaves one registry
\* entry for each distinct normalized name of the N valid libraries: the
\* instance of the library listed last under that name.
C2_LoadCounts ==
  LoadedDirectory =>
    /\ ~crashed
    /\ last.result = "Ok"
    /\ last.loaded_count = Cardinality(ValidFiles)
    /\ last.failed_count = Cardinality(InvalidFiles) + Cardinality(UnreadableEntries)
    /\ Len(last.failed_plugins) = Cardinality(InvalidFiles)
    /\ {last.failed_plugins[i].file : i \in 1..Len(last.failed_plugins)} = InvalidFiles
    /\ \A f \in ValidFiles :
         /\ Hyphenated(dir[f].name) \in DOMAIN plugins
         /\ plugins[Hyphenated(dir[f].name)].file = LastListedAs(Hyphenated(dir[f].name))

\* C2 witness: both libraries are valid and were loaded, and their names
\* normalize to the same key, so the registry holds one entry.
C2_Witness ==
  /\ LoadedDirectory
  /\ Cardinality(ValidFiles) = 2
  /\ last.loaded_count = 2
  /\ Cardinality(DOMAIN plugins) = 1

\* ----------------------------------------------------- claims on dispatch
\* The plugins of the last dispatch, in the order they were called.
CalledPlugins == [i \in 1..Len(last.calls) |-> last.calls[i].plugin]

\* P_n(..P_1(content, t).., t) for the registered plugins named by `keys`.
RECURSIVE Composition(_, _, _)
Composition(keys, content, content_type) ==
  IF keys = <<>> THEN content
  ELSE Composition(Tail(keys),
                   Append(content, <<plugins[Head(keys)].file, content_type>>),
                   content_type)

\* C3: process_content is a left fold over the plugins in registration order:
\* when every plugin succeeds, the plugins are called in the order they were
\* registered, each is given the output of the one before it and the same
\* content type, and the result is P_n(..P_1(c, t).., t) in that order.
C3_FoldInRegistrationOrder ==
  (/\ last.op = "process_content"
   /\ \A i \in 1..Len(last.calls) : last.calls[i].status = "ok") =>
    /\ CalledPlugins = reg_log
    /\ last.processed = Composition(reg_log, last.content, last.content_type)

\* The keys of the last process_content whose plugin did not return Err.
NotFailing ==
  SelectSeq(last.keys,
            LAMBDA k : \A i \in 1..Len(last.calls) :
                         last.calls[i].plugin = k => last.calls[i].status # "err")

\* C4: when a plugin's process_content returns Err, the plugin called next is
\* given exactly what the failing plugin was given, process_content still
\* returns Ok, and the result is that of the chain without the failing plugins.
C4_FailingPluginSkipped ==
  (last.op = "process_content" /\ last.result # "panic") =>
    /\ last.result = "Ok"
    /\ \A i \in 1..Len(last.calls) :
         /\ last.calls[i].content_type = last.content_type
         /\ (last.calls[i].status = "err" /\ i < Len(last.calls)) =>
              last.calls[i + 1].given = last.calls[i].given
    /\ last.processed = Composition(NotFailing, last.content, last.content_type)

\* C4 witness: the plugin called first returned Err and the one called after it
\* succeeded.
C4_Witness ==
  /\ last.op = "process_content"
  /\ Len(last.calls) = 2
  /\ last.calls[1].status = "err"
  /\ last.calls[2].status = "ok"
  /\ last.processed # last.content

\* The registered plugins whose execute_hook returns Err.
FailingHook == {k \in DOMAIN plugins : plugins[k].beh = "hook_err"}

\* C5: execute_hook calls every registered plugin once, whichever of them
\* return Err; it returns Ok exactly when none did, and otherwise one error
\* that names each plugin that returned Err, and no other plugin.
C5_HookErrorsCollected ==
  (last.op = "execute_hook" /\ last.result # "panic") =>
    /\ Range(last.invoked) = DOMAIN plugins
    /\ Len(last.invoked) = Cardinality(DOMAIN plugins)
    /\ (last.result = "Ok") <=> (FailingHook = {})
    /\ (last.result = "Err") <=> (FailingHook # {})
    /\ {last.errors[i].plugin : i \in 1..Len(last.errors)} = FailingHook
    /\ Len(last.errors) = Cardinality(FailingHook)
    /\ \A i \in 1..Len(last.errors) : last.errors[i].hook = last.hook

\* C5 witness: the plugin called first returned Err, the one called after it
\* succeeded, and the error names the first alone.
C5_Witness ==
  /\ last.op = "execute_hook"
  /\ Len(last.invoked) = 2
  /\ plugins[last.invoked[1]].beh = "hook_err"
  /\ plugins[last.invoked[2]].beh = "good"
  /\ last.result = "Err"
  /\ Len(last.errors) = 1

\* C8: a panic inside a trait method the host calls (execute_hook,
\* process_content, cleanup) becomes an error of that plugin: the call of the
\* host returns, the host is not ended, and every registered plugin was called.
C8_PanicInCallIsolated ==
  last.op \in {"process_content", "execute_hook", "cleanup"} =>
    /\ ~crashed
    /\ last.result \in {"Ok", "Err"}
    /\ Len(IF last.op = "process_content" THEN last.calls ELSE last.invoked)
         = Cardinality(DOMAIN plugins)

\* ------------------------------------------------------- claims on builds
\* A build has returned to its caller.
Finished == run_pc = "idle" /\ run_result # "none"

\* An output-directory, file-write or template-rendering step of the build failed.
IoFailed == "io_error" \in Range(trace)

\* The files of the plugin directory whose plugin fails: at load, in init, in a
\* hook or in process_content.
FailedFiles == {f \in Files : dir[f].kind \in InvalidKinds \/ dir[f].beh # "good"}

\* The emit steps of a build: what HtmlGenerator::generate writes.
EmitSteps == Tail(GeneratorSteps)

\* C6: a build (Engine::run or Engine::generate) in which no output-directory,
\* file-write or template-rendering error occurred returns Ok, having executed
\* every emit step and the AfterGenerate hook, whatever the plugins returned
\* from execute_hook and process_content.
C6_PluginFailureNeverAborts ==
  (Finished /\ ~crashed /\ ~IoFailed) =>
    /\ run_result = "Ok"
    /\ Range(EmitSteps) \subseteq Range(trace)
    /\ "AfterGenerate" \in Range(trace)

\* The marks plugins left on a content.
MarkedBy(content) == {content[i][1] : i \in 1..Len(content)}

\* The flag `name` of the template context could only come from a failed plugin.
OnlyFailedNamed(name) ==
  \A f \in Files : (dir[f].kind = "valid" /\ Hyphenated(dir[f].name) = name) => f \in FailedFiles

\* C7: a build with failing plugins that met no output error completes with Ok
\* and has written every output, and neither the Content Store nor the output
\* bears a trace of a failed plugin (a transformation of a content, a flag in
\* the template context): they are those of the build without these plugins.
C7_AsIfFailedPluginsAbsent ==
  (Finished /\ ~crashed /\ ~IoFailed) =>
    /\ run_result = "Ok"
    /\ \A step \in Range(EmitSteps) : emitted[step].written
    /\ \A i \in 1..Len(posts) :
         (MarkedBy(posts[i].content) \cup MarkedBy(posts[i].rendered_content)) \cap FailedFiles = {}
    /\ \A step \in Range(EmitSteps) :
         /\ \A i \in 1..Len(emitted[step].contents) :
              MarkedBy(emitted[step].contents[i]) \cap FailedFiles = {}
         /\ \A name \in emitted[step].plugin_enabled : ~OnlyFailedNamed(name)

\* The stages of one build, in the order the build is to execute them.
BuildOrder ==
  <<"BeforeGenerate", "load", "classify", "BeforeRouteGenerate">> \o EmitSteps \o <<"AfterGenerate">>

\* The stages the current build has started, in the order it started them.
StagesOf(events) == SelectSeq(events, LAMBDA e : e \in Range(BuildOrder))

\* The trace is that of a build by Engine::run, which starts with its hook.
BuiltByRun == trace # <<>> /\ trace[1] = "BeforeGenerate"

\* C9: the stages a build by Engine::run has started are, in order, the first
\* stages of BeforeGenerate, load, classification, BeforeRouteGenerate, the emit
\* steps, AfterGenerate: none starts twice or out of this order.
C9_StagesInOrder ==
  BuiltByRun =>
    LET started == StagesOf(trace)
    IN  /\ Len(started) <= Len(BuildOrder)
        /\ started = SubSeq(BuildOrder, 1, Len(started))

\* The manager holds the library that produced the instance registered as `k`.
LibraryHeld(k) ==
  /\ plugins[k].lib \in 1..Len(libraries)
  /\ libraries[plugins[k].lib] = plugins[k].file

\* C10: in every state, and so during every call into a registered instance,
\* the library handle that produced each registered instance is held by the
\* manager, whatever loads, overwrites by name, hot-reload switches and clones
\* have happened; and every clone shares that library list.
C10_LibraryOutlivesInstance ==
  /\ clones >= 1
  /\ \A k \in DOMAIN plugins : LibraryHeld(k)

\* C10 witness: after a repeated load that overwrote both registered names,
\* with hot reload switched on and a clone of the manager alive, a hook has
\* just been dispatched to two registered instances.
C10_Witness ==
  /\ Cardinality(DOMAIN plugins) = 2
  /\ Len(libraries) > 2
  /\ is_watching
  /\ clones > 1
  /\ last.op = "execute_hook"
  /\ Len(last.invoked) = 2
  /\ \A k \in DOMAIN plugins : LibraryHeld(k)

\* ------------------------------------------------- claims on init failures
InitFailing == {f \in Files : dir[f].kind = "init_err"}

\* One load attempt on file f, made on the registry as it is now.
AttemptOn(f) == load_entry(f, LoadAcc(plugins, libraries, reg_log))

\* C11: a load attempt on a plugin whose init fails leaves the registry (and the
\* library handles) exactly as they were, and the attempt is reported to
\* load_plugins as an InitError, counted and listed among the failures; after a
\* load of the directory no registered instance comes from such a file.
C11_InitFailureDiscarded ==
  /\ \A f \in InitFailing :
       /\ load_plugin_from_dylib(f, dir[f], libraries).status = "err"
       /\ load_plugin_from_dylib(f, dir[f], libraries).err = "InitError"
       /\ AttemptOn(f).plugins = plugins
       /\ AttemptOn(f).libraries = libraries
       /\ AttemptOn(f).reg_log = reg_log
       /\ AttemptOn(f).loaded_count = 0
       /\ AttemptOn(f).failed_count = 1
       /\ AttemptOn(f).failed_plugins = <<[file |-> f, err |-> "InitError"]>>
  /\ \A f \in InitFailing, k \in DOMAIN plugins : plugins[k].file # f
  /\ LoadedDirectory =>
       \A f \in InitFailing \cap Range(last.attempted) :
         /\ [file |-> f, err |-> "InitError"] \in Range(last.failed_plugins)
         /\ last.failed_count >= 1

\* C11 witness: a load of the directory registered one plugin and then
\* attempted one whose init failed.
C11_Witness ==
  /\ LoadedDirectory
  /\ Len(last.attempted) = 2
  /\ dir[last.attempted[1]].kind = "valid"
  /\ dir[last.attempted[2]].kind = "init_err"
  /\ DOMAIN plugins = {Hyphenated(dir[last.attempted[1]].name)}
  /\ last.failed_plugins = <<[file |-> last.attempted[2], err |-> "InitError"]>>

\* ------------------------------------------------- claims on plugin order
\* C12: a hook dispatch calls the registered plugins in the order of their
\* registration: a plugin registered before another is called before it.
C12_HookInRegistrationOrder ==
  (last.op = "execute_hook" /\ last.result # "panic") => last.invoked = reg_log

\* The entries of the directory in the order of their file names.
FileNameOrder ==
  CHOOSE s \in Orderings(Listed) : \A i, j \in 1..Len(s) : i < j => s[i] < s[j]

\* The registry an execution builds when it lists the directory by file name.
StableLoad == load_entries(FileNameOrder, LoadAcc(EmptyMap, <<>>, <<>>))

\* The marks the plugins named by `keys`, taken from the registry `reg`, leave
\* on a content when each of them succeeds.
RECURSIVE StableComposition(_, _, _, _)
StableComposition(reg, keys, content, content_type) ==
  IF keys = <<>> THEN content
  ELSE StableComposition(reg, Tail(keys),
                         IF reg[Head(keys)].beh = "proc_err" THEN content
                         ELSE Append(content, <<reg[Head(keys)].file, content_type>>),
                         content_type)

\* C13: the transformed content is a function of the plugin directory and of
\* the content alone: whatever execution produced it, the plugins were called
\* in the file-name order of the directory and the result is the one that order
\* gives.
C13_OrderDeterministic ==
  (last.op = "process_content" /\ last.result = "Ok" /\ plugins # EmptyMap) =>
    /\ CalledPlugins = StableLoad.reg_log
    /\ last.processed =
         StableComposition(StableLoad.plugins, StableLoad.reg_log, last.content,
                           last.content_type)

\* ------------------------------------------------------ claims on cleanup
\* The registered plugins whose cleanup returns Err.
FailingCleanup == {k \in DOMAIN plugins : plugins[k].beh = "cleanup_err"}

\* C14: cleanup calls the cleanup of every registered plugin once, whichever of
\* them return Err; it returns Ok exactly when none did, and otherwise one
\* error that lists each plugin that returned Err, and no other plugin.
C14_CleanupErrorsCollected ==
  (last.op = "cleanup" /\ last.result # "panic") =>
    /\ Range(last.invoked) = DOMAIN plugins
    /\ Len(last.invoked) = Cardinality(DOMAIN plugins)
    /\ (last.result = "Ok") <=> (FailingCleanup = {})
    /\ (last.result = "Err") <=> (FailingCleanup # {})
    /\ {last.errors[i].plugin : i \in 1..Len(last.errors)} = FailingCleanup
    /\ Len(last.errors) = Cardinality(FailingCleanup)

\* C14 witness: the cleanup of the plugin called first returned Err, the one
\* called after it succeeded, and the error lists the first alone.
C14_Witness ==
  /\ last.op = "cleanup"
  /\ Len(last.invoked) = 2
  /\ plugins[last.invoked[1]].beh = "cleanup_err"
  /\ plugins[last.invoked[2]].beh = "good"
  /\ last.result = "Err"
  /\ Len(last.errors) = 1

\* How many times the current build called the cleanup of the Plugin Host.
CleanupsInBuild == Len(SelectSeq(trace, LAMBDA e : e = "cleanup"))

\* C15: a build that has returned Ok has called the cleanup of the Plugin Host
\* exactly once, as its last stage, after the AfterGenerate hook.
C15_CleanupOncePerRun ==
  (Finished /\ run_result = "Ok") =>
    /\ CleanupsInBuild = 1
    /\ trace[Len(trace)] = "cleanup"

\* ---------------------------------------------------- claims on the names
\* C16: every registry key is the name its plugin reports with each '_'
\* replaced by '-', so no two entries share a normalized name; registering a
\* plugin adds the key of its normalized name or, when that key exists,
\* replaces the instance under it, and leaves every other entry alone.
C16_NormalizedNameLastWins ==
  /\ \A k \in DOMAIN plugins :
       /\ k = Hyphenated(plugins[k].name)
       /\ \A i \in 1..Len(k) : k[i] # "_"
  /\ \A k1, k2 \in DOMAIN plugins :
       Hyphenated(plugins[k1].name) = Hyphenated(plugins[k2].name) => k1 = k2
  /\ \A f \in ValidFiles :
       LET after == AttemptOn(f).plugins
           key == Hyphenated(dir[f].name)
       IN  /\ DOMAIN after = DOMAIN plugins \cup {key}
           /\ after[key].file = f
           /\ \A k \in DOMAIN plugins \ {key} : after[k] = plugins[k]
  /\ LoadedDirectory =>
       \A k \in DOMAIN plugins :
         (\E f \in ValidFiles : Hyphenated(dir[f].name) = k) => plugins[k].file = LastListedAs(k)

\* C16 witness: a plugin reporting "a-x" was registered, then one reporting
\* "a_x" replaced it under the same key.
C16_Witness ==
  /\ LoadedDirectory
  /\ Len(last.attempted) = 2
  /\ dir[last.attempted[1]].name = <<"a", "-", "x">>
  /\ dir[last.attempted[2]].name = <<"a", "_", "x">>
  /\ dir[last.attempted[1]].kind = "valid"
  /\ dir[last.attempted[2]].kind = "valid"
  /\ DOMAIN plugins = {<<"a", "-", "x">>}
  /\ plugins[<<"a", "-", "x">>].file = last.attempted[2]
  /\ Len(libraries) = 2

\* ---------------------------------------------------- claims on hot reload
\* The stages of a build that load or build content.
ContentStages == {"load", "classify"} \cup Range(EmitSteps)

\* C17: a build that runs with the hot-reload flag set has re-invoked plugin
\* discovery (load_plugins) before any stage that loads or builds content.
C17_HotReloadConsulted ==
  (is_watching /\ run_pc # "idle") =>
    \A i \in 1..Len(trace) :
      trace[i] \in ContentStages => \E j \in 1..(i - 1) : trace[j] = "plugins_init"

\* ------------------------------------------------ claims on the Content Store
\* The documents of the Content Store.
StoredDocs == {posts[i].id : i \in 1..Len(posts)}

\* C18: after a load stage that succeeded, the documents of the Content Store
\* are exactly the documents that load found in the source tree.
C18_StoreIsWhatWasFound ==
  (last.op = "load_posts_and_pages" /\ last.result = "Ok") =>
    /\ StoredDocs = last.found
    /\ Len(posts) = Cardinality(last.found)

\* C19: in every state, a document that was loaded or reloaded and that the
\* classification stage has not treated since has no category and no tag;
\* only a document the classification stage treated has some.
C19_UnclassifiedHasNoTaxonomy ==
  \A i \in 1..Len(posts) :
    /\ ~posts[i].classified => (posts[i].categories = <<>> /\ posts[i].tags = <<>>)
    /\ posts[i].classified =>
         /\ posts[i].categories = names_in(posts[i].front_matter.categories)
         /\ posts[i].tags = names_in(posts[i].front_matter.tags)

\* C19 witness: within one build the documents were loaded, classified and
\* then reloaded; classification has not run again yet, and the reloaded
\* documents, whose front matter names categories, have none.
C19_Witness ==
  /\ run_pc = "gen_classify"
  /\ "classify" \in Range(trace)
  /\ categories # <<>>
  /\ Len(posts) = 2
  /\ \A i \in 1..Len(posts) :
       /\ ~posts[i].classified
       /\ names_in(posts[i].front_matter.categories) # <<>>
       /\ posts[i].categories = <<>>

\* A step of the classification stage on a Content Store that has not changed
\* since classification last ran on it.
ClassifiesAgain ==
  /\ run_pc \in {"run_classify", "gen_classify"}
  /\ run_pc' # run_pc
  /\ posts # <<>>
  /\ \A i \in 1..Len(posts) : posts[i].classified

\* C20: classification run again on an unchanged Content Store changes
\* nothing: the Category and Tag collections keep their elements, their order
\* and their counts, and every document keeps its categories and tags.
C20_ClassificationIdempotent ==
  [][ClassifiesAgain => (categories' = categories /\ tags' = tags /\ posts' = posts)]_vars

\* SpecClassify: classification applied to a store of one document whose front
\* matter holds every form of `categories` and `tags` value up to MaxItems items.
Scalars == {StringValue("a"), StringValue("b"), NumberValue("2024")}

FrontMatterValues ==
  {NoValue} \cup Scalars
    \cup {SequenceValue(items) : items \in UNION {[1..n -> Scalars] : n \in 0..MaxItems}}

InitClassify ==
  /\ dir \in [Files -> {Entry("absent", <<"b">>, "good")}]
  /\ source = {1}
  /\ InitManager
  /\ \E cats \in FrontMatterValues, tgs \in FrontMatterValues :
       posts = <<[load_post(1).post EXCEPT
                    !.front_matter = [categories |-> cats, tags |-> tgs]]>>
  /\ categories = <<>>
  /\ tags = <<>>
  /\ watching = FALSE
  /\ run_pc = "gen_classify"
  /\ in_run = FALSE
  /\ trace = <<"load">>
  /\ run_result = "none"
  /\ emitted = [step \in Range(GeneratorSteps) |-> NothingWritten]
  /\ InitThreads

NextClassify == GenClassify

SpecClassify == InitClassify /\ [][NextClassify]_vars

\* What a front-matter value names: every scalar of a list, the scalar of a
\* single value, nothing when the key is absent.
NamedBy(value) ==
  CASE value.type = "Sequence" -> {value.items[i].s : i \in 1..Len(value.items)}
    [] value.type = "None" -> {}
    [] OTHER -> {value.s}

MaxPosts == 5
MaxPerPage == 3

\* self.config.per_page.unwrap_or(10)
DefaultPerPage == 10

\* per_page: Option<i32> of the configuration, absent or a count.
PerPageConfigs ==
  {[is_some |-> FALSE, value |-> 0]} \cup {[is_some |-> TRUE, value |-> n] : n \in 0..MaxPerPage}

per_page_of(config) == IF config.is_some THEN config.value ELSE DefaultPerPage

\* HtmlGenerator::generate_paginated_index: the posts of each index page, in
\* page order; the division panics when page_size is 0.
generate_paginated_index(ps, page_size) ==
  IF page_size = 0
    THEN [result |-> "panic", pages |-> <<>>]
    ELSE LET total_posts == Len(ps)
             total_pages == (total_posts + page_size - 1) \div page_size
             start_idx(page_num) == (page_num - 1) * page_size
             end_idx(page_num) ==
               IF start_idx(page_num) + page_size < total_posts
                 THEN start_idx(page_num) + page_size ELSE total_posts
         IN  [result |-> "Ok",
              pages |-> [page_num \in 1..total_pages |->
                           SubSeq(ps, start_idx(page_num) + 1, end_idx(page_num))]]

\* HtmlGenerator::generate reaches generate_paginated_index with the posts of
\* the store and the page size of the configuration.
PaginatedIndex ==
  /\ Running("html_emit")
  /\ \E config \in PerPageConfigs :
       LET r == generate_paginated_index(posts, per_page_of(config))
       IN  /\ last' = [op |-> "generate_paginated_index", result |-> r.result,
                       page_size |-> per_page_of(config),
                       pages |-> [n \in 1..Len(r.pages) |->
                                    [i \in 1..Len(r.pages[n]) |-> r.pages[n][i].id]]]
           /\ crashed' = (r.result = "panic")
  /\ UNCHANGED <<dir, plugins, iter_order, libraries, is_watching, clones, reg_log, engineVars>>

InitPaginate ==
  /\ dir \in [Files -> {Entry("absent", <<"b">>, "good")}]
  /\ InitManager
  /\ source \in SUBSET (1..MaxPosts)
  /\ posts = sort_by_date({load_post(d).post : d \in source})
  /\ categories = <<>>
  /\ tags = <<>>
  /\ watching = FALSE
  /\ run_pc = "html_emit"
  /\ in_run = FALSE
  /\ trace = <<"load">>
  /\ run_result = "none"
  /\ emitted = NoneEmitted
  /\ InitThreads

NextPaginate == PaginatedIndex

SpecPaginate == InitPaginate /\ [][NextPaginate]_vars

RECURSIVE Concatenated(_)
Concatenated(pages) ==
  IF pages = <<>> THEN <<>> ELSE Head(pages) \o Concatenated(Tail(pages))

\* C22: for P posts and page size S the index has exactly ceil(P / S) pages,
\* and the pages, one after the other, give the sorted post list again with no
\* post twice and none left out.
C22_PagesPartitionPosts ==
  last.op = "generate_paginated_index" =>
    LET P == Len(posts)
        S == last.page_size
        n == Len(last.pages)
    IN  /\ n * S >= P
        /\ n > 0 => (n - 1) * S < P
        /\ Concatenated(last.pages) = [i \in 1..P |-> posts[i].id]

\* ------------------------------------------------ the store and its readers
\* RwLock::read on a collection of the store, were it granted whatever the
\* state of the lock.
read_granted_always(lock) == TRUE

\* RwLock::read on a collection of the store: granted while no writer holds it.
read_granted(lock) == lock = "free"

storeKept ==
  <<pmVars, source, watching, run_pc, in_run, trace, run_result, emitted, lockVars, watchVars,
    orderVars>>

\* The clones a reader holds before create_plugin_context has read anything.
NothingCloned == [taken |-> FALSE, value |-> <<>>]

\* create_plugin_context begins: self.posts.read().unwrap().clone()
SnapshotPosts ==
  /\ ~crashed
  /\ read_granted(posts_lock)
  /\ snapshot' = [posts |-> [taken |-> TRUE, value |-> posts],
                  categories |-> NothingCloned, tags |-> NothingCloned]
  /\ UNCHANGED <<storeKept, posts, categories, tags, posts_lock, classify_pc, classify_idx, versions>>

\* create_plugin_context goes on: self.categories.read().unwrap().clone(); the
\* writer of the categories holds their lock for one assignment only.
SnapshotCategories ==
  /\ ~crashed
  /\ snapshot.posts.taken /\ ~snapshot.categories.taken
  /\ read_granted("free")
  /\ snapshot' = [snapshot EXCEPT !.categories = [taken |-> TRUE, value |-> categories]]
  /\ UNCHANGED <<storeKept, posts, categories, tags, posts_lock, classify_pc, classify_idx, versions>>

\* create_plugin_context ends: self.tags.read().unwrap().clone()
SnapshotTags ==
  /\ ~crashed
  /\ snapshot.categories.taken /\ ~snapshot.tags.taken
  /\ read_granted("free")
  /\ snapshot' = [snapshot EXCEPT !.tags = [taken |-> TRUE, value |-> tags]]
  /\ UNCHANGED <<storeKept, posts, categories, tags, posts_lock, classify_pc, classify_idx, versions>>

\* load_posts_and_pages on another thread: the store is replaced under the
\* write lock, in one assignment.
StoreLoad ==
  /\ ~crashed
  /\ classify_pc = "idle"
  /\ posts_lock = "free"
  /\ \E io \in {"ok", "err"} : load_posts_and_pages(io)
  /\ versions' = [versions EXCEPT !.posts = @ \cup {posts'}]
  /\ UNCHANGED <<pmKept, source, watching, run_pc, in_run, trace, run_result, emitted,
                 lockVars, watchVars, orderVars, categories, tags, posts_lock, classify_pc, classify_idx,
                 snapshot>>

\* process_categories_and_tags on another thread: let mut posts =
\* self.posts.write().unwrap(), held to the end of the function.
ClassifyLock ==
  /\ ~crashed
  /\ classify_pc = "idle"
  /\ posts_lock = "free"
  /\ posts_lock' = "write"
  /\ classify_pc' = "loop"
  /\ classify_idx' = 0
  /\ UNCHANGED <<storeKept, posts, categories, tags, snapshot, versions>>

\* for post in posts.iter_mut(): one post is updated in place.
ClassifyPost ==
  /\ ~crashed
  /\ classify_pc = "loop"
  /\ classify_idx < Len(posts)
  /\ posts' = [posts EXCEPT ![classify_idx + 1] = classified_post(@)]
  /\ classify_idx' = classify_idx + 1
  /\ UNCHANGED <<storeKept, categories, tags, posts_lock, classify_pc, snapshot, versions>>

\* *categories_store = categories, under the write lock of the categories.
ClassifyCategories ==
  /\ ~crashed
  /\ classify_pc = "loop"
  /\ classify_idx = Len(posts)
  /\ categories' \in collections_of(posts, "categories")
  /\ versions' = [versions EXCEPT !.categories = @ \cup {categories'}]
  /\ classify_pc' = "tags"
  /\ UNCHANGED <<storeKept, posts, tags, posts_lock, classify_idx, snapshot>>

\* *tags_store = tags, under the write lock of the tags.
ClassifyTags ==
  /\ ~crashed
  /\ classify_pc = "tags"
  /\ tags' \in collections_of(posts, "tags")
  /\ versions' = [versions EXCEPT !.tags = @ \cup {tags'}]
  /\ classify_pc' = "return"
  /\ UNCHANGED <<storeKept, posts, categories, posts_lock, classify_idx, snapshot>>

\* Ok(()): the write guard of the posts is dropped.
ClassifyUnlock ==
  /\ ~crashed
  /\ classify_pc = "return"
  /\ posts_lock' = "free"
  /\ classify_pc' = "idle"
  /\ versions' = [versions EXCEPT !.posts = @ \cup {posts}]
  /\ UNCHANGED <<storeKept, posts, categories, tags, classify_idx, snapshot>>

\* SpecStore: a thread that loads and classifies again and again beside a
\* reader that clones the collections.
InitStore ==
  /\ dir \in [Files -> {Entry("absent", <<"b">>, "good")}]
  /\ source \in SUBSET Docs
  /\ InitManager
  /\ InitEngine

NextStore ==
  \/ SnapshotPosts
  \/ SnapshotCategories
  \/ SnapshotTags
  \/ StoreLoad
  \/ ClassifyLock
  \/ ClassifyPost
  \/ ClassifyCategories
  \/ ClassifyTags
  \/ ClassifyUnlock

SpecStore == InitStore /\ [][NextStore]_vars

\* C23: a collection a reader has cloned, while another thread loads or
\* classifies, is a value the collection had between two updates: wholly the
\* value before an update or wholly the value after it.
C23_SnapshotNeverPartial ==
  \A c \in {"posts", "categories", "tags"} :
    snapshot[c].taken => snapshot[c].value \in versions[c]

\* A reader holds clones of the posts and of the categories while the
\* classification has updated some posts and not the others.
C23_Witness ==
  /\ classify_pc = "loop"
  /\ 0 < classify_idx /\ classify_idx < Len(posts)
  /\ snapshot.posts.taken /\ snapshot.posts.value # <<>>
  /\ snapshot.categories.taken

\* ------------------------------------------ the registry lock of a dispatch
DispatchOps == {"process_content", "execute_hook", "cleanup"}

lockKept ==
  <<dir, plugins, iter_order, libraries, is_watching, clones, reg_log, source, posts,
    categories, tags, watching, run_pc, in_run, trace, run_result, emitted, storeVars,
    watchVars, orderVars>>

\* process_content, execute_hook and cleanup begin alike:
\* let plugins = self.plugins.read().unwrap().
DispatchBegin ==
  /\ Idle
  /\ dispatch_pc = "idle"
  /\ dispatch_pc' \in DispatchOps
  /\ plugins_lock' = plugins_lock + 1
  /\ dispatch_idx' = 0
  /\ UNCHANGED <<lockKept, crashed, last>>

\* for (name, plugin) in plugins.iter(): the next plugin is called; the foreign
\* code returns, or never does.
DispatchCall ==
  /\ ~crashed
  /\ dispatch_pc \in DispatchOps
  /\ dispatch_idx < Len(iter_order)
  /\ \E returns \in BOOLEAN :
       IF returns
         THEN dispatch_idx' = dispatch_idx + 1 /\ UNCHANGED dispatch_pc
         ELSE dispatch_pc' = "in_plugin" /\ UNCHANGED dispatch_idx
  /\ UNCHANGED <<lockKept, crashed, last, plugins_lock>>

\* The loop is over: the function returns what the loop gathered and the read
\* guard is dropped.
DispatchEnd ==
  /\ ~crashed
  /\ dispatch_pc \in DispatchOps
  /\ dispatch_idx = Len(iter_order)
  /\ CASE dispatch_pc = "process_content" ->
            \E content_type \in ContentTypes : call_process_content(RawContent, content_type)
       [] dispatch_pc = "execute_hook" -> \E hook \in Hooks : call_execute_hook(hook)
       [] OTHER -> call_cleanup
  /\ plugins_lock' = plugins_lock - 1
  /\ dispatch_pc' = "idle"
  /\ dispatch_idx' = 0
  /\ UNCHANGED lockKept

\* load_plugins on another thread: self.plugins.write().unwrap().insert(..)
\* waits until no read guard is held.
LoadBeside ==
  /\ plugins_lock = 0
  /\ LoadPlugins

\* SpecLocks: dispatches, call by call, beside a thread that loads the
\* directory, over plugins that do not panic.
LockEntries ==
  {Entry("absent", <<"b">>, "good"), Entry("valid", <<"a", "_", "x">>, "good"),
   Entry("valid", <<"b">>, "good"), Entry("valid", <<"b">>, "hook_err")}

InitLocks ==
  /\ dir \in [Files -> LockEntries]
  /\ source = {}
  /\ InitManager
  /\ InitEngine

NextLocks ==
  \/ LoadBeside
  \/ DispatchBegin
  \/ DispatchCall
  \/ DispatchEnd

SpecLocks == InitLocks /\ [][NextLocks]_vars

\* C24: between two consecutive plugin calls of one dispatch or transform the
\* host holds no lock on the registry: a lock is held across one plugin call
\* at most.
C24_LockReleasedBetweenCalls ==
  (dispatch_pc \in DispatchOps /\ 0 < dispatch_idx /\ dispatch_idx < Len(iter_order))
    => plugins_lock = 0

\* ------------------------------------------------------------ the watch task
\* let debounce_time = Duration::from_millis(1000)
DebounceMs == 1000
\* rx.recv_timeout(Duration::from_secs(1))
RecvTimeoutMs == 1000
\* if elapsed < 10000; last_event = Instant::now() - Duration::from_secs(10)
StaleMs == 10000
\* The most events the channel holds at a time.
MaxQueue == 1

\* The events the file watcher sends: their kind and the extension of their path.
FsEvents == {[kind |-> k, ext |-> e] : k \in {"Modify", "Access"}, e \in {"md", "txt"}}

\* match event.kind { Create | Modify | Remove => is_relevant by the paths }
is_relevant(event) == event.kind = "Modify" /\ event.ext = "md"

\* How long recv_timeout waits before it returns an event: no time, or half of
\* its timeout.
RecvWaits == {0, RecvTimeoutMs \div 2}

\* last_event.elapsed() after `ms` more, kept up to StaleMs (it is only compared
\* with DebounceMs and StaleMs).
later(ms) == IF elapsed + ms < StaleMs THEN elapsed + ms ELSE StaleMs

watchKept ==
  <<dir, plugins, iter_order, libraries, is_watching, clones, reg_log, source, categories,
    tags, storeVars, lockVars, orderVars>>

\* Engine::watch: the flag is set, the watcher is created and kept in the
\* engine, the task is spawned with last_event = Instant::now().
WatchSpawn ==
  /\ Idle
  /\ watch_pc = "off"
  /\ watching' = TRUE
  /\ watch_pc' = "recv"
  /\ elapsed' = 0
  /\ UNCHANGED <<watchKept, crashed, last, posts, run_pc, in_run, trace, run_result, emitted,
                 channel, events_stopped, unbuilt>>

\* The file watcher's callback: tx.send(event).
FsEvent ==
  /\ ~crashed
  /\ watch_pc \notin {"off", "exited"}
  /\ ~events_stopped
  /\ Len(channel) < MaxQueue
  /\ \E event \in FsEvents : channel' = Append(channel, event)
  /\ UNCHANGED <<watchKept, crashed, last, posts, watching, run_pc, in_run, trace, run_result,
                 emitted, watch_pc, elapsed, events_stopped, unbuilt>>

\* The file system goes quiet: no event is sent any more.
EventsStop ==
  /\ ~crashed
  /\ watch_pc \notin {"off", "exited"}
  /\ ~events_stopped
  /\ events_stopped' = TRUE
  /\ UNCHANGED <<watchKept, crashed, last, posts, watching, run_pc, in_run, trace, run_result,
                 emitted, watch_pc, channel, elapsed, unbuilt>>

\* rx.recv_timeout returns Ok(event): a relevant event sets last_event to now,
\* any other is logged; the loop goes on to the next recv_timeout.
WatchRecv ==
  /\ ~crashed
  /\ watch_pc = "recv"
  /\ channel # <<>>
  /\ channel' = Tail(channel)
  /\ \E wait \in RecvWaits :
       elapsed' = IF is_relevant(Head(channel)) THEN 0 ELSE later(wait)
  /\ unbuilt' = (unbuilt \/ is_relevant(Head(channel)))
  /\ UNCHANGED <<watchKept, crashed, last, posts, watching, run_pc, in_run, trace, run_result,
                 emitted, watch_pc, events_stopped>>

\* rx.recv_timeout returns Err(Timeout): the re-run starts if
\* last_event.elapsed() is at least debounce_time and less than 10000 ms.
WatchTimeout ==
  /\ ~crashed
  /\ watch_pc = "recv"
  /\ channel = <<>>
  /\ elapsed' = later(RecvTimeoutMs)
  /\ watch_pc' = IF elapsed' >= DebounceMs /\ elapsed' < StaleMs THEN "reload" ELSE "check"
  /\ UNCHANGED <<watchKept, crashed, last, posts, watching, run_pc, in_run, trace, run_result,
                 emitted, channel, events_stopped, unbuilt>>

\* The re-run: engine.load_posts_and_pages(), an Err only logged.
WatchReload ==
  /\ ~crashed
  /\ watch_pc = "reload"
  /\ \E io \in {"ok", "err"} : load_posts_and_pages(io)
  /\ unbuilt' = FALSE
  /\ watch_pc' = "generate"
  /\ UNCHANGED <<watchKept, watching, run_pc, in_run, trace, run_result, emitted, channel,
                 elapsed, events_stopped>>

\* The re-run: engine.generate(&public_dir) is called.
WatchGenerate ==
  /\ Idle
  /\ watch_pc = "generate"
  /\ create_output_dir(<<"load">>)
  /\ in_run' = FALSE
  /\ emitted' = NoneEmitted
  /\ watch_pc' = "generating"
  /\ UNCHANGED <<watchKept, crashed, last, posts, watching, channel, elapsed, events_stopped,
                 unbuilt>>

\* Where the task would go after engine.generate, were its Err to leave the loop.
after_generate_leaving(result) == IF result = "Err" THEN "exited" ELSE "check"

\* if let Err(e) = engine.generate(&public_dir) { error!(..) } else { info!(..) }:
\* either way the task goes on to the check of the flag.
after_generate(result) == "check"

\* engine.generate has returned, its Err only logged:
\* last_event = Instant::now() - Duration::from_secs(10).
WatchRebuilt ==
  /\ Idle
  /\ watch_pc = "generating"
  /\ elapsed' = StaleMs
  /\ watch_pc' = after_generate(run_result)
  /\ UNCHANGED <<watchKept, crashed, last, posts, watching, run_pc, in_run, trace, run_result,
                 emitted, channel, events_stopped, unbuilt>>

\* if !*engine.is_watching.read().unwrap() { break; }, at the end of the
\* Timeout branch only.
WatchCheck ==
  /\ ~crashed
  /\ watch_pc = "check"
  /\ watch_pc' = IF watching THEN "recv" ELSE "exited"
  /\ UNCHANGED <<watchKept, crashed, last, posts, watching, run_pc, in_run, trace, run_result,
                 emitted, channel, elapsed, events_stopped, unbuilt>>

\* Engine::unwatch, called while the task runs.
UnwatchTask ==
  /\ watch_pc \notin {"off", "exited"}
  /\ watching
  /\ watching' = FALSE
  /\ UNCHANGED <<pmVars, source, threadVars, categories, tags, posts, run_pc, in_run, trace,
                 run_result, emitted>>

\* The steps of the watch task, the generate it calls included.
WatchTask ==
  \/ WatchRecv
  \/ WatchTimeout
  \/ WatchReload
  \/ WatchGenerate
  \/ GenLoad
  \/ GenClassify
  \/ GenPlugins
  \/ HtmlBeforeGenerate
  \/ HtmlEmit
  \/ HtmlAfterGenerate
  \/ WatchRebuilt
  \/ WatchCheck

\* SpecWatch: Engine::watch on a site of one document and no plugin, the file
\* system sending events of every kind until it goes quiet, Engine::unwatch.
InitWatch ==
  /\ dir \in [Files -> {Entry("absent", <<"b">>, "good")}]
  /\ source = {2}
  /\ InitManager
  /\ InitEngine

NextWatch ==
  \/ WatchSpawn
  \/ FsEvent
  \/ EventsStop
  \/ UnwatchTask
  \/ WatchRecv
  \/ WatchTimeout
  \/ WatchReload
  \/ WatchGenerate
  \/ GenLoad
  \/ GenClassify
  \/ GenPlugins
  \/ HtmlBeforeGenerate
  \/ HtmlEmit
  \/ HtmlAfterGenerate
  \/ WatchRebuilt
  \/ WatchCheck

SpecWatch == InitWatch /\ [][NextWatch]_vars

\* SpecWatchFair: the task is scheduled as long as it can take a step.
SpecWatchFair == SpecWatch /\ WF_vars(WatchTask)

\* SpecWatchQuiet: besides, the file system does go quiet.
SpecWatchQuiet == SpecWatchFair /\ WF_vars(EventsStop)

\* C25: once Engine::unwatch has cleared the flag, the watch loop comes to see
\* it and exits, whatever events arrive, events that keep arriving included.
C25_UnwatchStopsLoop ==
  (watch_pc # "off" /\ ~watching) ~> (watch_pc = "exited")

\* C26: the watch loop starts a re-run only for relevant events it has received
\* since the re-run before, once the debounce window has passed since the last
\* of them: a burst gives one re-run, and no event gives none.
C26_RerunOnlyAfterQuietWindow ==
  watch_pc = "reload" => (unbuilt /\ elapsed >= DebounceMs)

\* C30: while the watch task runs, every relevant event it has received is
\* followed by a re-run that starts after it, whatever else arrives, provided
\* the events stop in the end.
C30_RelevantEventRebuilt ==
  unbuilt ~> (~unbuilt \/ ~watching)

\* C27: a load parses the front matter of each document, then applies the
\* Markdown transform, converts to HTML and applies the HTML transform, in this
\* order, and every stored document keeps its raw body beside its transformed
\* body, which is HTML-transform(convert(Markdown-transform(body))).
C27_LoadOrderAndBodies ==
  (last.op = "load_posts_and_pages" /\ last.result = "Ok" /\ last.found # {}) =>
    /\ last.stages = <<"parse_front_matter", "markdown_transform", "convert", "html_transform">>
    /\ \A i \in 1..Len(posts) :
         /\ posts[i].content = RawContent
         /\ posts[i].rendered_content =
              engine_process_content(
                markdown_render(engine_process_content(RawContent, "Markdown").content),
                "HTML").content

\* The load step of Engine::generate is taken.
LoadStepOfGenerate == run_pc = "gen_load" /\ run_pc' # "gen_load"

\* The step loads the documents from the source tree.
Reloads == trace' # trace /\ last'.op = "load_posts_and_pages"

\* C28: Engine::generate loads the documents from disk when the Content Store
\* is empty, or when it is populated and the watching flag is set; when the
\* store is populated and the flag is clear it does not load, and its load
\* step leaves the documents of the store as they are.
C28_ReloadsWhenEmptyOrWatching ==
  [][LoadStepOfGenerate =>
       IF posts = <<>> \/ watching
         THEN Reloads
         ELSE trace' = trace /\ posts' = posts /\ last' = last]_vars

\* A generate has passed its load step without loading: the store was
\* populated, the flag clear, and the source tree holds other documents than
\* the store.
C28_Witness ==
  /\ run_pc = "gen_classify"
  /\ posts # <<>>
  /\ ~watching
  /\ "load" \notin Range(trace)
  /\ source # StoredDocs

\* The emit stages the current build has entered, in order.
EmitStagesEntered == SelectSeq(trace, LAMBDA stage : stage \in Range(GeneratorSteps))

\* An emit stage of the current build has returned an error.
EmitFailedAt(i) ==
  i < Len(trace) /\ trace[i] \in Range(GeneratorSteps) /\ trace[i + 1] = "io_error"

\* C29: HtmlGenerator::generate runs the emit stages one after the other and
\* dispatches AfterGenerate only after all of them have succeeded; when an emit
\* stage fails the error is returned to the caller, the stages after it are not
\* run and AfterGenerate is not dispatched.
C29_EmitFailureEndsBuild ==
  /\ Len(EmitStagesEntered) <= Len(GeneratorSteps)
  /\ EmitStagesEntered = SubSeq(GeneratorSteps, 1, Len(EmitStagesEntered))
  /\ \A i \in 1..Len(trace) :
       /\ trace[i] = "AfterGenerate" =>
            /\ EmitStagesEntered = GeneratorSteps
            /\ \A j \in 1..Len(trace) : trace[j] \in Range(GeneratorSteps) => j < i
            /\ \A step \in Range(GeneratorSteps) : emitted[step].written
            /\ ~\E j \in 1..Len(trace) : EmitFailedAt(j)
       /\ EmitFailedAt(i) =>
            /\ i + 1 = Len(trace)
            /\ run_pc = "idle" /\ run_result = "Err"
            /\ \A n \in 1..Len(GeneratorSteps) :
                 GeneratorSteps[n] = trace[i] =>
                   \A m \in n..Len(GeneratorSteps) : ~emitted[GeneratorSteps[m]].written

\* A build whose generate_categories stage failed: the posts and the index
\* were written, the error was returned, nothing was written after it.
C29_Witness ==
  /\ run_pc = "idle" /\ run_result = "Err"
  /\ Len(trace) >= 2
  /\ trace[Len(trace)] = "io_error"
  /\ trace[Len(trace) - 1] = "generate_categories"
  /\ emitted["generate_paginated_index"].written
  /\ posts # <<>>

\* ------------------------------------------------ claims on the collections
\* The names of a collection of the store, and the documents whose derived
\* names (under `field`) contain the name n.
NamesOf(collection) == {collection[i].name : i \in 1..Len(collection)}
DocsNaming(field, n) == {i \in 1..Len(posts) : n \in Range(posts[i][field])}

\* The collection has one element per name the documents use under `field`,
\* each with the number of the documents that use it.
CountsDocuments(collection, field) ==
  /\ NamesOf(collection) = UNION {Range(posts[i][field]) : i \in 1..Len(posts)}
  /\ Len(collection) = Cardinality(NamesOf(collection))
  /\ \A i \in 1..Len(collection) :
       collection[i].post_count = Cardinality(DocsNaming(field, collection[i].name))

\* Classification has just run on the store.
Classified == run_pc = "gen_plugins" /\ trace # <<>> /\ trace[Len(trace)] = "classify"

\* C31: after classification there is exactly one Category (Tag) for each
\* distinct name a document uses, and its post_count is the number of the
\* documents whose derived categories (tags) contain the name.
C31_OneElementPerNameWithCount ==
  Classified =>
    /\ CountsDocuments(categories, "categories")
    /\ CountsDocuments(tags, "tags")

\* The shapes of a front-matter value: a string or a list of strings is
\* recognized, anything else is not.
ListOfStrings(value) ==
  value.type = "Sequence" /\ \A i \in 1..Len(value.items) : value.items[i].type = "String"
Unrecognized(value) == value.type # "None" /\ value.type # "String" /\ ~ListOfStrings(value)

\* C32 as stated: a document whose categories (tags) value has an unrecognized
\* shape ends classification with no categories (tags) at all, and
\* classification reports no error.
C32_UnrecognizedGivesNothing ==
  Classified =>
    /\ ~crashed
    /\ \A i \in 1..Len(posts) :
         /\ Unrecognized(posts[i].front_matter.categories) => posts[i].categories = <<>>
         /\ Unrecognized(posts[i].front_matter.tags) => posts[i].tags = <<>>

\* The strings among the items of a list.
StringItems(value) == {value.items[i].s : i \in {j \in 1..Len(value.items) : value.items[j].type = "String"}}

\* What classification derives from a value of unrecognized shape: nothing
\* from a value that is no list, the strings of a list and not its other items.
DroppedSilently(value, derived) ==
  Unrecognized(value) =>
    IF value.type = "Sequence" THEN Range(derived) = StringItems(value) ELSE derived = <<>>

\* C32 as amended: classification reports no error whatever the shapes are; a
\* value that is neither a string nor a list gives the document no categories
\* (tags); of a list, the items that are no strings are dropped and the
\* strings are kept.
C32_NonStringsDropped ==
  Classified =>
    /\ ~crashed
    /\ \A i \in 1..Len(posts) :
         /\ DroppedSilently(posts[i].front_matter.categories, posts[i].categories)
         /\ DroppedSilently(posts[i].front_matter.tags, posts[i].tags)

\* A document whose categories are a list of a string and a number, and whose
\* tags are a number, has been classified: one category, no tag.
C32_Witness ==
  /\ Classified
  /\ Len(posts) = 1
  /\ posts[1].front_matter.categories = SequenceValue(<<StringValue("a"), NumberValue("2024")>>)
  /\ posts[1].front_matter.tags = NumberValue("2024")
  /\ posts[1].categories = <<"a">>
  /\ posts[1].tags = <<>>

\* --------------------------------------------------- claims on discovery
\* The entries of the last listing that are regular files with the library
\* suffix, and those that are something else.
LibraryFiles == {f \in Range(last.listing) : HandedToLoader(f)}
OtherEntries == {f \in Range(last.listing) : dir[f].kind \in {"subdir", "not_lib"}}

\* C33: load_plugins attempts a load for exactly the entries that are regular
\* files with the platform's library suffix, once each and whatever became of
\* the others; a sub-directory or a file with another extension is skipped,
\* counted neither as loaded nor as failed.
C33_OnlyLibraryFilesAttempted ==
  LoadedDirectory =>
    /\ Range(last.attempted) = LibraryFiles
    /\ Len(last.attempted) = Cardinality(LibraryFiles)
    /\ last.loaded_count + last.failed_count
         = Cardinality(LibraryFiles) + Cardinality(UnreadableEntries)
    /\ \A f \in OtherEntries :
         /\ \A i \in 1..Len(last.failed_plugins) : last.failed_plugins[i].file # f
         /\ \A k \in DOMAIN plugins : plugins[k].file # f

\* A directory of a file that is no library and a library that fails to load
\* was read: one attempt, one failure, nothing loaded.
C33_Witness ==
  /\ LoadedDirectory
  /\ Len(last.listing) = 2
  /\ \E f \in OtherEntries : dir[f].kind = "not_lib"
  /\ \E f \in LibraryFiles : dir[f].kind \in InvalidKinds
  /\ Len(last.attempted) = 1
  /\ last.failed_count = 1
  /\ last.loaded_count = 0

\* ------------------------------------------------ claims on initialization
\* The instance was built from a library of the directory whose init returns
\* Ok, and holds the handle that was pushed when its init returned.
InitializedOnce(inst) ==
  /\ inst.file \in Files
  /\ dir[inst.file].kind = "valid"
  /\ PluginInit(dir[inst.file]) = "ok"
  /\ inst.lib \in 1..Len(libraries)
  /\ libraries[inst.lib] = inst.file

\* The plugins the last dispatch called.
CalledByLast ==
  CASE last.op = "process_content" -> Range(CalledPlugins)
    [] last.op \in {"execute_hook", "cleanup"} -> Range(last.invoked)
    [] OTHER -> {}

\* C34: an instance enters the registry only after its init(context) has
\* returned Ok, init being called once for each instance (each has a handle of
\* its own); the host calls execute_hook, process_content and cleanup on
\* instances of the registry only.
C34_CalledOnlyAfterInit ==
  /\ \A k \in DOMAIN plugins : InitializedOnce(plugins[k])
  /\ \A k1, k2 \in DOMAIN plugins : k1 # k2 => plugins[k1].lib # plugins[k2].lib
  /\ CalledByLast \subseteq DOMAIN plugins

\* A directory of a plugin whose init fails and of one that loads was loaded,
\* and a hook was dispatched: the loaded plugin alone was called.
C34_Witness ==
  /\ last.op = "execute_hook"
  /\ InitFailing # {}
  /\ Cardinality(DOMAIN plugins) = 1
  /\ Range(last.invoked) = DOMAIN plugins

\* ------------------------------------------- claims on repeated discovery
\* The loadable plugins of the directory (N of them).
Loadable == {f \in Files : dir[f].kind = "valid"}

\* The step of Engine::generate that asks is_initialized and goes on.
PluginStageOfGenerate == run_pc = "gen_plugins" /\ run_pc' # "gen_plugins"

SubDirs == {<<>>, <<"y">>}
Stems == {"a", "b"}
\* The .md files WalkDir may find under source/_posts.
PostFiles == {[parent |-> p, stem |-> s, extension |-> "md"] : p \in SubDirs, s \in Stems}

\* path.file_stem(): the file name without its extension, without its parent.
file_stem(path) == path.stem

\* format!("posts/{}.html", filename)
post_path(path) == <<"posts", file_stem(path), "html">>

\* The Post that load_posts_and_pages makes of the file at `path`.
post_of(path) == [source |-> path, path |-> post_path(path)]

\* fs::write(post_path, rendered): the page at that path is now this post's.
fs_write(output_dir, post) ==
  {page \in output_dir : page.path # post.path}
    \cup {[path |-> post.path, source |-> post.source]}

\* One iteration of the loop of generate_posts: generate_post(post)?
GeneratePost ==
  /\ Running("html_emit")
  /\ last.op = "generate_posts"
  /\ last.n < Len(posts)
  /\ last' = [last EXCEPT !.n = @ + 1,
                          !.output_dir = fs_write(@, posts[last.n + 1])]
  /\ UNCHANGED <<dir, plugins, iter_order, libraries, is_watching, clones, crashed,
                 reg_log, engineVars>>

InitPaths ==
  /\ dir \in [Files -> {Entry("absent", <<"b">>, "good")}]
  /\ plugins = EmptyMap
  /\ iter_order = <<>>
  /\ libraries = <<>>
  /\ is_watching = FALSE
  /\ clones = 1
  /\ crashed = FALSE
  /\ reg_log = <<>>
  /\ last = [op |-> "generate_posts", n |-> 0, output_dir |-> {}]
  /\ source \in SUBSET PostFiles
  /\ posts \in {[i \in DOMAIN order |-> post_of(order[i])] : order \in Orderings(source)}
  /\ categories = <<>>
  /\ tags = <<>>
  /\ watching = FALSE
  /\ run_pc = "html_emit"
  /\ in_run = FALSE
  /\ trace = <<"load">>
  /\ run_result = "none"
  /\ emitted = NoneEmitted
  /\ InitThreads

NextPaths == GeneratePost

SpecPaths == InitPaths /\ [][NextPaths]_vars

\* The posts pages are all written.
PostsGenerated == last.op = "generate_posts" /\ last.n = Len(posts)

\* C36: distinct source documents are stored with distinct output paths, so
\* when the post pages of a run are written every document of the store has its
\* own page in the output, none overwritten by the page of another document.
C36_DistinctOutputPaths ==
  /\ \A i, j \in 1..Len(posts) : i # j => posts[i].path # posts[j].path
  /\ PostsGenerated =>
       \A i \in 1..Len(posts) :
         [path |-> posts[i].path, source |-> posts[i].source] \in last.output_dir

\* ------------------------------------------- claims on the Plugin Context
\* create_plugin_context has cloned the posts, the categories and the tags.
ContextBuilt == snapshot.posts.taken /\ snapshot.categories.taken /\ snapshot.tags.taken

\* C37: a Plugin Context built while another thread loads or classifies has,
\* as its categories and its tags, exactly the collections derived from the
\* posts of the same context.
C37_ContextConsistent ==
  ContextBuilt =>
    /\ snapshot.categories.value \in collections_of(snapshot.posts.value, "categories")
    /\ snapshot.tags.value \in collections_of(snapshot.posts.value, "tags")

\* --------------------------------------- SpecOrder: the locks of the engine
\* SpecOrder: two threads that hold clones of one Engine, each running the
\* operations of the engine one after the other; only the lock guards the
\* operations take and drop, and the calls into plugins between them, are kept.
Locks == {"posts", "categories", "tags", "plugins", "context", "libraries"}

Acquire(lock, mode) == [do |-> "acquire", lock |-> lock, mode |-> mode]
Release(lock) == [do |-> "release", lock |-> lock, mode |-> "none"]
PluginCall == [do |-> "call", lock |-> "none", mode |-> "none"]

\* process_content, execute_hook, cleanup, register_template_functions:
\* let plugins = self.plugins.read().unwrap(), held over the calls of the loop.
dispatch_locks == <<Acquire("plugins", "read"), PluginCall, Release("plugins")>>

\* load_posts_and_pages: process_markdown and process_html for the files, then
\* let mut posts = self.posts.write().unwrap(); *posts = found_posts.
load_posts_and_pages_locks ==
  dispatch_locks \o <<Acquire("posts", "write"), Release("posts")>>

\* process_categories_and_tags: the write guard of the posts is held to the end;
\* the categories and the tags are written in two inner blocks.
process_categories_and_tags_locks ==
  <<Acquire("posts", "write"),
    Acquire("categories", "write"), Release("categories"),
    Acquire("tags", "write"), Release("tags"),
    Release("posts")>>

\* set_context(create_plugin_context()): each collection is cloned under a read
\* guard dropped at the end of its statement, then the context is written.
set_context_locks ==
  <<Acquire("posts", "read"), Release("posts"),
    Acquire("categories", "read"), Release("categories"),
    Acquire("tags", "read"), Release("tags"),
    Acquire("context", "write"), Release("context")>>

\* load_plugin_from_dylib: let context = self.context.read().unwrap(), held to
\* the end of the function; plugin.init(&context); when init returned Ok,
\* self.libraries.write().unwrap().push(lib).
load_plugin_from_dylib_locks(init_result) ==
  <<Acquire("context", "read"), PluginCall>>
    \o (IF init_result = "ok"
          THEN <<Acquire("libraries", "write"), Release("libraries")>> ELSE <<>>)
    \o <<Release("context")>>

\* The registry guards of load_plugins, were the write guard of the insert kept
\* until the function returns.
load_plugins_registry_locks_kept(init_result) ==
  (IF init_result = "ok" THEN <<Acquire("plugins", "write")>> ELSE <<>>)
    \o <<Acquire("plugins", "read"), Release("plugins")>>
    \o (IF init_result = "ok" THEN <<Release("plugins")>> ELSE <<>>)

\* load_plugins after the loader returned: self.plugins.write().unwrap()
\* .insert(..), the guard dropped at the end of the statement; after the loop,
\* let plugins = self.plugins.read().unwrap() for the list that is logged.
load_plugins_registry_locks(init_result) ==
  (IF init_result = "ok" THEN <<Acquire("plugins", "write"), Release("plugins")>> ELSE <<>>)
    \o <<Acquire("plugins", "read"), Release("plugins")>>

\* load_plugins over a directory of one library.
load_plugins_locks(init_result) ==
  load_plugin_from_dylib_locks(init_result) \o load_plugins_registry_locks(init_result)

\* Engine::generate up to the generator: posts.read() for is_empty, the
\* context, the discovery of plugins, get_all_plugins, the clone of the posts.
generate_locks(init_result) ==
  <<Acquire("posts", "read"), Release("posts")>>
    \o set_context_locks
    \o load_plugins_locks(init_result)
    \o <<Acquire("plugins", "read"), Release("plugins")>>
    \o <<Acquire("posts", "read"), Release("posts")>>

Operations ==
  {"load_posts_and_pages", "process_categories_and_tags", "set_context", "load_plugins_ok",
   "load_plugins_init_err", "generate", "dispatch"}

\* The guards and plugin calls of operation `op`, in program order.
program(op) ==
  CASE op = "load_posts_and_pages" -> load_posts_and_pages_locks
    [] op = "process_categories_and_tags" -> process_categories_and_tags_locks
    [] op = "set_context" -> set_context_locks
    [] op = "load_plugins_ok" -> load_plugins_locks("ok")
    [] op = "load_plugins_init_err" -> load_plugins_locks("err")
    [] op = "generate" -> generate_locks("ok")
    [] op = "dispatch" -> dispatch_locks
    [] OTHER -> <<>>

Busy(t) == thread_pc[t].op # "none"
next_instruction(t) == program(thread_pc[t].op)[thread_pc[t].at]

\* The threads that hold a guard of `lock` in mode `mode`.
Holders(lock, mode) ==
  {t \in Threads : \E i \in 1..Len(held[t]) : held[t][i].lock = lock /\ held[t][i].mode = mode}

\* RwLock: a read guard is given while no write guard is out, a write guard
\* while no guard is out; a guard the asking thread holds itself counts.
granted(lock, mode) ==
  IF mode = "read"
    THEN Holders(lock, "write") = {}
    ELSE Holders(lock, "write") = {} /\ Holders(lock, "read") = {}

orderKept == <<pmVars, source, posts, categories, tags, watching, run_pc, in_run, trace,
               run_result, emitted, storeVars, lockVars, watchVars>>

\* The thread enters an operation of the engine.
Begin(t) ==
  /\ ~Busy(t)
  /\ \E op \in Operations : thread_pc' = [thread_pc EXCEPT ![t] = [op |-> op, at |-> 1]]
  /\ UNCHANGED <<orderKept, held>>

\* The thread goes past its next instruction, back to no operation after the last.
advance(t) ==
  thread_pc' = [thread_pc EXCEPT ![t] =
                  IF @.at = Len(program(@.op)) THEN NoOperation ELSE [@ EXCEPT !.at = @ + 1]]

\* lock.read().unwrap() or lock.write().unwrap() returns its guard.
AcquireLock(t) ==
  /\ Busy(t)
  /\ next_instruction(t).do = "acquire"
  /\ granted(next_instruction(t).lock, next_instruction(t).mode)
  /\ held' = [held EXCEPT ![t] = Append(@, [lock |-> next_instruction(t).lock,
                                            mode |-> next_instruction(t).mode])]
  /\ advance(t)
  /\ UNCHANGED orderKept

\* The guard goes out of scope.
ReleaseLock(t) ==
  /\ Busy(t)
  /\ next_instruction(t).do = "release"
  /\ held' = [held EXCEPT ![t] = SelectSeq(@, LAMBDA g : g.lock # next_instruction(t).lock)]
  /\ advance(t)
  /\ UNCHANGED orderKept

\* A call into a plugin returns.
CallReturns(t) ==
  /\ Busy(t)
  /\ next_instruction(t).do = "call"
  /\ advance(t)
  /\ UNCHANGED <<orderKept, held>>

\* The steps of thread t inside an operation.
Proceed(t) == AcquireLock(t) \/ ReleaseLock(t) \/ CallReturns(t)

ThreadBegins == \E t \in Threads : Begin(t)
ThreadAcquires == \E t \in Threads : AcquireLock(t)
ThreadReleases == \E t \in Threads : ReleaseLock(t)
ThreadCallReturns == \E t \in Threads : CallReturns(t)

InitOrder ==
  /\ dir \in [Files -> {Entry("absent", <<"b">>, "good")}]
  /\ source = {}
  /\ InitManager
  /\ InitEngine

NextOrder ==
  \/ ThreadBegins
  \/ ThreadAcquires
  \/ ThreadReleases
  \/ ThreadCallReturns

SpecOrder == InitOrder /\ [][NextOrder]_vars

\* A thread inside an operation is scheduled again and again, a call into a
\* plugin returns, and a thread that asks for a lock that is free again and
\* again gets it.
SpecOrderFair == SpecOrder /\ \A t \in Threads : SF_vars(Proceed(t))

\* ------------------------------------------------- claims on the lock order
\* One order of the locks: a thread that holds guards took them in this order.
lock_rank(lock) ==
  CASE lock = "posts" -> 1
    [] lock = "categories" -> 2
    [] lock = "tags" -> 3
    [] lock = "plugins" -> 4
    [] lock = "context" -> 5
    [] lock = "libraries" -> 6

LockOrderRespected ==
  \A t \in Threads : \A i, j \in 1..Len(held[t]) :
    i < j => lock_rank(held[t][i].lock) < lock_rank(held[t][j].lock)

\* Thread t asks for `lock`; it waits when the guard cannot be given now.
Requests(t, lock) ==
  /\ Busy(t)
  /\ next_instruction(t).do = "acquire"
  /\ next_instruction(t).lock = lock
Waiting(t) ==
  /\ Busy(t)
  /\ next_instruction(t).do = "acquire"
  /\ ~granted(next_instruction(t).lock, next_instruction(t).mode)
Holds(t, lock) == t \in Holders(lock, "read") \cup Holders(lock, "write")

\* The threads whose guards keep the waiting thread t from its lock.
Blockers(t) ==
  {u \in Threads :
     /\ Holds(u, next_instruction(t).lock)
     /\ next_instruction(t).mode = "read" => u \in Holders(next_instruction(t).lock, "write")}

NoDeadlock == \A t \in Threads : Waiting(t) => \E u \in Blockers(t) : ~Waiting(u)

C39_RerunOnlyAfterEvent ==
  [][(watch_pc # "reload" /\ watch_pc' = "reload") => unbuilt]_vars

\* The re-run of the watch loop has returned an Err.
RerunFailed == watch_pc = "generating" /\ run_pc = "idle" /\ run_result = "Err"

\* C40: a failed reload or a failed re-run inside the watch loop does not end
\* the loop: after the reload the task goes on to generate, after generate to
\* the check of the running flag, the loop is left only with the flag cleared,
\* and after a failed re-run the task comes back to polling for events unless
\* the flag was cleared.
C40_FailureKeepsLoop ==
  /\ [][/\ (watch_pc = "reload" /\ watch_pc' # "reload") => watch_pc' = "generate"
        /\ (watch_pc = "generating" /\ watch_pc' # "generating") => watch_pc' = "check"
        /\ (watch_pc # "exited" /\ watch_pc' = "exited") => (watch_pc = "check" /\ ~watching)]_vars
  /\ RerunFailed ~> (watch_pc = "recv" \/ ~watching)

\* C40 witness: the reload of a re-run failed and its generate failed too; the
\* loop went on, received a relevant event, and now starts the next re-run.
C40_Witness ==
  /\ watch_pc = "reload"
  /\ watching
  /\ unbuilt
  /\ run_result = "Err"
  /\ last.op = "load_posts_and_pages"
  /\ last.result = "Err"

====
